---- MODULE Spec2Model ----
(***************************************************************************)
(* ml-audesc: the audio-description timeline compositor.                   *)
(*                                                                         *)
(* Two revisions of the compositor live in the repository:                 *)
(*   - MainFrame.generate_video_thread   (src/ml-audesc.py), windowed,     *)
(*     used for the final render and for both previews;                    *)
(*   - generate_video_with_ads           (src/src/processing.py), the      *)
(*     modular full-video render driven by gui.py.                         *)
(* Times are whole ticks (the code uses float seconds; no property below    *)
(* depends on fractions of a tick).                                         *)
(***************************************************************************)
EXTENDS Integers, Sequences, FiniteSets, TLC

\* ---------------------------------------------------------------- bounds
MaxItems == 2
VideoDuration == 4
MaxAudioDuration == 3
MaxStamps == 1          \* seconds of the clock that stamp a session's previews

\* ------------------------------------------------------------- constants
\* end_time_sec=None, the default of generate_video_thread
None == -1

Max(a, b) == IF a >= b THEN a ELSE b
Min(a, b) == IF a <= b THEN a ELSE b

\* --------------------------------------------------------- the data model
\* The file behind an item's archivo_audio, as the worker finds it:
\* "ok" exists and decodes, "corrupt" exists and AudioFileClip raises,
\* "missing" does not exist (an empty archivo_audio behaves the same).
AudioFiles ==
    {[status |-> "ok", duration |-> d] : d \in 1..MaxAudioDuration}
    \cup {[status |-> "corrupt", duration |-> 0],
          [status |-> "missing", duration |-> 0]}

AudioDescriptionItem == [tiempo : 0..VideoDuration, archivo_audio : AudioFiles]

os_path_exists(archivo_audio) == archivo_audio.status # "missing"

AudioFileClip_loads(archivo_audio) == archivo_audio.status = "ok"

AudioFileClip_duration(archivo_audio) == archivo_audio.duration

\* update_ad_list_ctrl keeps self.audiodescriptions sorted by tiempo
IsSortedByTiempo(ads) ==
    \A i \in 1..Len(ads) : \A j \in 1..Len(ads) :
        i < j => ads[i].tiempo <= ads[j].tiempo

\* A placed description clip: the item it plays, where it starts in the
\* output (window-relative), how long it plays, and the offset into the
\* item's audio file at which it starts playing.
NoClip == [item |-> 0, start |-> 0, duration |-> 0, offset |-> 0]

\* An audio track: which sides it mixes and how long it is.  The track None
\* (no audio) mixes neither.
NoAudio == [original |-> FALSE, descriptions |-> FALSE, duration |-> 0]

NoOutput == [written |-> FALSE, video_duration |-> 0, audio |-> NoAudio]

\* The decode handles a render holds: the video reader (VideoFileClip) and
\* the number of audio readers (AudioFileClip) it opened and has not closed.
NoHandles == [video |-> 0, audio |-> 0]

\* ------------------------------------------- the data model of gui.py
\* The modular revision's window (gui.py MainFrame) with its two workers:
\* the TTS batch (processing.py generate_tts_audio_files) and the render.
MaxGuiItems == 2        \* items the list holds at most
GuiVideoDuration == 1   \* the video's duration: item times are 0..1
MaxThreads == 2         \* worker threads alive at once
MaxTtsDirs == 2         \* scratch directories one run of the program creates
MaxBatch == 50          \* items of the largest batch given to the TTS driver
MaxUserActions == 5     \* menu entries, buttons and drops the user gets to

\* A path is the directory it lies in and the file's name.  Directory 0 with
\* the empty name is the empty string, directory -1 holds the audio files the
\* user picked, a positive directory is a scratch directory
\* ml-audesc-tts-<timestamp>, where a file's name is made of a time and an
\* index (processing.py:55).
EmptyPath == [dir |-> 0, tiempo |-> 0, i |-> 0]
UserAudioFile == [dir |-> -1, tiempo |-> 0, i |-> 0]

\* f"tts_{item.tiempo:.2f}_{i:03d}.wav".replace('.', '_') under temp_dir:
\* the name is a function of the time and of the index, and differs when
\* either does
output_filename(temp_dir, tiempo, i) == [dir |-> temp_dir, tiempo |-> tiempo, i |-> i]

\* os.path.basename
basename(path) == [path EXCEPT !.dir = IF path.dir > 0 THEN 1 ELSE path.dir]

\* temp_tts_dir in Path(archivo_audio).parents
in_temp_tts_dir(path, temp_tts_dir) == temp_tts_dir > 0 /\ path.dir = temp_tts_dir

\* The texts a user types; the empty text is ""
Texts == {"a"}

VideoFiles == {"clip.mp4"}

\* The gains of the two spin controls, in tenths: 0.0..2.0 and 0.0..3.0
VolOrigRange == [min |-> 0, max |-> 20]
VolDescRange == [min |-> 0, max |-> 30]

\* wx.SpinCtrlDouble.SetValue: a value outside the range is pulled to it
SetValue_clamped(range, v) ==
    IF v < range.min THEN range.min ELSE IF v > range.max THEN range.max ELSE v

output_ctrl_default == "video_con_audiodescripcion.mp4"

\* MainFrame.__init__ and init_ui, then check_dependencies: an empty
\* project, both buttons enabled unless their library is missing
NewFrame(e) ==
    [video_file |-> "",
     video_duration |-> 0,
     audiodescriptions |-> <<>>,
     temp_tts_dir |-> 0,
     selected_voice_index |-> 0,
     rate_slider |-> 0,
     output_ctrl |-> output_ctrl_default,
     vol_orig_ctrl |-> 6,
     vol_desc_ctrl |-> 15,
     generate_btn |-> e.MOVIEPY_AVAILABLE,
     generate_tts_btn |-> (e.COMTYPES_AVAILABLE /\ e.sapi_voices > 0),
     ad_list_ctrl |-> <<>>]

\* The libraries and voices the program finds at start: init_tts_engine
\* looks for voices only with comtypes, and may find none
Environments ==
    {e \in [MOVIEPY_AVAILABLE : BOOLEAN, COMTYPES_AVAILABLE : BOOLEAN,
            sapi_voices : 0..1] :
        ~e.COMTYPES_AVAILABLE => e.sapi_voices = 0}

AllAvailable ==
    [MOVIEPY_AVAILABLE |-> TRUE, COMTYPES_AVAILABLE |-> TRUE, sapi_voices |-> 1]

\* A thread slot nobody runs in
IdleThread ==
    [target |-> "none", pc |-> "none", items_to_generate |-> <<>>,
     temp_dir |-> 0, i |-> 0, reported |-> <<>>, success |-> FALSE]

NoFiles == [dirs |-> {}, files |-> {}, created |-> 0]

\* No project document at the path
NoFile == [exists |-> FALSE]

VARIABLES
    frame,                  \* the fields and controls of gui.py's MainFrame
    objects,                \* the AudioDescriptionItem objects, by identity
    fs,                     \* the scratch directories and the files in them
    threads,                \* the worker threads
    events,                 \* the calls queued by wx.CallAfter, oldest first
    project_file,           \* the project document last written
    env,                    \* the libraries and voices found at start
    user_actions            \* the handlers run for the user so far

gui_vars == <<frame, objects, fs, threads, events, project_file, env,
              user_actions>>

\* A handler runs for something the user did
user_acts ==
    /\ user_actions < MaxUserActions
    /\ user_actions' = user_actions + 1

VARIABLES
    audiodescriptions,      \* self.audiodescriptions
    video_duration,         \* self.video_duration, the duration the GUI cached
    video_has_audio,        \* whether the video file has an audio track
    pc,                     \* the worker's position ("idle": no worker)
    worker,                 \* "thread": generate_video_thread, "ads": generate_video_with_ads
    is_preview,
    start_time_sec,         \* the arguments the worker was started with
    end_time_sec,
    start_time_actual,
    end_time_actual,
    sorted_relevant_descriptions,   \* indices into audiodescriptions
    idx,                    \* the loop position (1-based)
    clips_audio_descripcion,        \* the placed clips (audio_clips in processing.py)
    last_audio_actual_end_time_in_clip,
    audio_final,
    dialogs,                \* the message boxes surfaced by the current render
    output,                 \* the rendered file
    result,                 \* how the last render ended
    open_handles,           \* the readers the current render holds open
    progress,               \* the last value given to the progress gauge
    temp_preview_files,     \* self.temp_preview_files, the paths by their stamp
    output_path,            \* the preview path of the running thread (0: none)
    tmp_dir                 \* the preview files in the temporary directory

render_vars == <<audiodescriptions, video_duration, video_has_audio, pc, worker,
          is_preview, start_time_sec, end_time_sec, start_time_actual,
          end_time_actual,
          sorted_relevant_descriptions, idx, clips_audio_descripcion,
          last_audio_actual_end_time_in_clip, audio_final, dialogs, output,
          result, open_handles, progress, temp_preview_files, output_path,
          tmp_dir>>

vars == <<render_vars, gui_vars>>

\* The window of gui.py as the compositor's specification leaves it
GuiIdle ==
    /\ env = AllAvailable
    /\ frame = NewFrame(AllAvailable)
    /\ objects = <<>>
    /\ fs = NoFiles
    /\ threads = [s \in 1..MaxThreads |-> IdleThread]
    /\ events = <<>>
    /\ project_file = NoFile
    /\ user_actions = 0

Init ==
    /\ audiodescriptions \in
         {ads \in UNION {[1..n -> AudioDescriptionItem] : n \in 0..MaxItems} :
             IsSortedByTiempo(ads)}
    /\ video_duration \in {0, VideoDuration}
    /\ video_has_audio \in BOOLEAN
    /\ pc = "idle"
    /\ worker = "none"
    /\ is_preview = FALSE
    /\ start_time_sec = 0
    /\ end_time_sec = None
    /\ start_time_actual = 0
    /\ end_time_actual = 0
    /\ sorted_relevant_descriptions = <<>>
    /\ idx = 1
    /\ clips_audio_descripcion = <<>>
    /\ last_audio_actual_end_time_in_clip = 0
    /\ audio_final = NoAudio
    /\ dialogs = {}
    /\ output = NoOutput
    /\ result = "none"
    /\ open_handles = NoHandles
    /\ progress = 0
    /\ temp_preview_files = {}
    /\ output_path = 0
    /\ tmp_dir = {}
    /\ GuiIdle

\* ------------------------------------------------- the GUI's start handlers
\* _common_preview_checks: a video is set (every modelled project has one),
\* the list is not empty and every item's audio file exists.
common_preview_checks ==
    /\ Len(audiodescriptions) > 0
    /\ \A i \in 1..Len(audiodescriptions) :
          os_path_exists(audiodescriptions[i].archivo_audio)

\* int(time.time()) in a preview's name, counted in seconds of the session
PreviewStamps == 1..MaxStamps

\* What every start handler does to the worker's state: a fresh run.  The
\* thread's first statements are taken with it: a preview's output path is
\* preview_audiodesc_<stem>_<stamp>.mp4 in the temporary directory, and it is
\* appended to temp_preview_files before anything is rendered.
StartWorker(w, preview, s, e) ==
    /\ pc \in {"idle", "done"}
    /\ pc' = "load"
    /\ worker' = w
    /\ is_preview' = preview
    /\ start_time_sec' = s
    /\ end_time_sec' = e
    /\ start_time_actual' = 0
    /\ end_time_actual' = 0
    /\ sorted_relevant_descriptions' = <<>>
    /\ idx' = 1
    /\ clips_audio_descripcion' = <<>>
    /\ last_audio_actual_end_time_in_clip' = 0
    /\ audio_final' = NoAudio
    /\ dialogs' = {}
    /\ output' = NoOutput
    /\ result' = "running"
    /\ open_handles' = NoHandles
    /\ progress' = 0
    /\ IF preview
       THEN \E stamp \in PreviewStamps :
               /\ output_path' = stamp
               /\ temp_preview_files' = temp_preview_files \cup {stamp}
       ELSE /\ output_path' = 0
            /\ UNCHANGED temp_preview_files
    /\ UNCHANGED <<audiodescriptions, video_duration, video_has_audio, tmp_dir>>
    /\ UNCHANGED gui_vars

\* ml-audesc.py on_generate: the final render, thread args (False, 0.0, None)
MlAudesc_on_generate ==
    /\ common_preview_checks
    /\ StartWorker("thread", FALSE, 0, None)

\* ml-audesc.py on_preview_full_video: thread args (True, 0.0, self.video_duration)
on_preview_full_video ==
    /\ common_preview_checks
    /\ StartWorker("thread", TRUE, 0, video_duration)

\* ml-audesc.py on_preview_specific_section: the dialog's range, refused
\* unless 0 <= start < end <= self.video_duration
on_preview_specific_section ==
    /\ common_preview_checks
    /\ \E s \in 0..VideoDuration, e \in 0..VideoDuration :
          /\ ~(e <= s)
          /\ ~(s < 0 \/ e > video_duration)
          /\ StartWorker("thread", TRUE, s, e)

\* gui.py on_generate: starts run_video_generation_thread
on_generate ==
    /\ Len(audiodescriptions) > 0
    /\ \A i \in 1..Len(audiodescriptions) :
          os_path_exists(audiodescriptions[i].archivo_audio)
    /\ StartWorker("ads", FALSE, 0, None)

\* The file system is not the program's: between the handler's check and the
\* worker's reads an audio file can disappear (the case os.path.exists at
\* ml-audesc.py:884 and the except at processing.py:103 are there for).
FileRemovedExternally ==
    /\ pc = "load"
    /\ \E i \in 1..Len(audiodescriptions) :
          /\ audiodescriptions[i].archivo_audio.status # "missing"
          /\ audiodescriptions' =
               [audiodescriptions EXCEPT ![i].archivo_audio =
                   [status |-> "missing", duration |-> 0]]
    /\ UNCHANGED <<video_duration, video_has_audio, pc, worker, is_preview,
                   start_time_sec, end_time_sec, start_time_actual,
                   end_time_actual, sorted_relevant_descriptions, idx,
                   clips_audio_descripcion,
                   last_audio_actual_end_time_in_clip, audio_final, dialogs,
                   output, result, open_handles, progress,
                   temp_preview_files, output_path, tmp_dir>>
    /\ UNCHANGED gui_vars

\* ------------------------------------------- generate_video_thread: helpers
\* ad_audio_duration: the clip's duration, 0 when the file cannot be read
ad_audio_duration(item) ==
    IF AudioFileClip_loads(item.archivo_audio)
    THEN AudioFileClip_duration(item.archivo_audio)
    ELSE 0

\* IsRelevant with the window's end taken as part of the window
IsRelevant_inclusive_end(item, W_start, W_end) ==
    \/ (W_start <= item.tiempo /\ item.tiempo <= W_end)
    \/ (item.tiempo < W_start /\ item.tiempo + ad_audio_duration(item) > W_start)

\* The condition under which an item is appended to relevant_descriptions
IsRelevant(item, W_start, W_end) ==
    \/ (W_start <= item.tiempo /\ item.tiempo < W_end)
    \/ (item.tiempo < W_start /\ item.tiempo + ad_audio_duration(item) > W_start)

\* relevant_descriptions with the loop stopping one item short
relevant_descriptions_short(ads, W_start, W_end) ==
    LET Test(i) == IsRelevant(ads[i], W_start, W_end)
    IN  SelectSeq([i \in 1..(Len(ads) - 1) |-> i], Test)

\* relevant_descriptions, as indices into the list, in list order
relevant_descriptions(ads, W_start, W_end) ==
    LET Test(i) == IsRelevant(ads[i], W_start, W_end)
    IN  SelectSeq([i \in 1..Len(ads) |-> i], Test)

\* sorted(..., key=lambda x: x.tiempo): Python's sort is stable
RECURSIVE sorted_by_tiempo(_, _)
sorted_by_tiempo(seq, ads) ==
    IF seq = <<>> THEN <<>>
    ELSE LET h == Head(seq)
             rest == sorted_by_tiempo(Tail(seq), ads)
             Before(j) == ads[j].tiempo < ads[h].tiempo
             NotBefore(j) == ~(ads[j].tiempo < ads[h].tiempo)
         IN  SelectSeq(rest, Before) \o <<h>> \o SelectSeq(rest, NotBefore)

\* actual_start_in_clip without the queueing behind the previous clip
actual_start_in_clip_unqueued(relative_ad_start_time, last_end) ==
    relative_ad_start_time

\* actual_start_in_clip clamped to the window's start only
actual_start_in_clip_from_zero(relative_ad_start_time, last_end) ==
    Max(relative_ad_start_time, 0)

\* actual_start_in_clip = max(relative_ad_start_time, last_audio_actual_end_time_in_clip)
actual_start_in_clip(relative_ad_start_time, last_end) ==
    Max(relative_ad_start_time, last_end)

\* trim_offset with nothing trimmed
trim_offset_none(tiempo, W_start) == 0

\* trim_offset: the leading part of the audio that lies before the window
trim_offset(tiempo, W_start) ==
    IF tiempo < W_start THEN W_start - tiempo ELSE 0

\* clip_to_window without the truncation
clip_to_window_untruncated(duration, remaining_duration_in_clip) == duration

\* The clip's duration after subclip(0, remaining_duration_in_clip), applied
\* only when the clip is longer than what remains of the window
clip_to_window(duration, remaining_duration_in_clip) ==
    IF duration > remaining_duration_in_clip
    THEN remaining_duration_in_clip
    ELSE duration

\* One pass of the placement loop's body for the item at index k:
\* what happens to it, and the clip placed (when one is).
place_item(k, item, W_start, video_duration_current_clip, last_end) ==
    LET raw_duration == AudioFileClip_duration(item.archivo_audio)
        start == actual_start_in_clip(item.tiempo - W_start, last_end)
        trim == trim_offset(item.tiempo, W_start)
        remaining == video_duration_current_clip - start
        duration == clip_to_window(raw_duration - trim, remaining)
    IN  IF ~os_path_exists(item.archivo_audio)
        THEN [outcome |-> "missing", clip |-> NoClip]
        ELSE IF ~AudioFileClip_loads(item.archivo_audio)
        THEN [outcome |-> "load_error", clip |-> NoClip]
        ELSE IF start < 0 \/ start >= video_duration_current_clip
        THEN [outcome |-> "outside", clip |-> NoClip]
        ELSE IF item.tiempo < W_start /\ trim >= raw_duration
        THEN [outcome |-> "trimmed_away", clip |-> NoClip]
        ELSE IF raw_duration - trim > remaining /\ duration <= 0
        THEN [outcome |-> "empty", clip |-> NoClip]
        ELSE [outcome |-> "placed",
              clip |-> [item |-> k, start |-> start, duration |-> duration,
                        offset |-> trim]]

\* CompositeAudioClip(clips).duration: the latest end of its clips
composite_duration(clips) ==
    IF Len(clips) = 0 THEN 0
    ELSE CHOOSE m \in {clips[i].start + clips[i].duration : i \in 1..Len(clips)} :
            \A i \in 1..Len(clips) : clips[i].start + clips[i].duration <= m

\* audio_final of generate_video_thread: the original alone, the mix, the
\* descriptions alone, or None; set_duration pins it to the window's length
thread_audio_final(has_original, clips, video_duration_current_clip) ==
    LET has_descriptions == Len(clips) > 0
    IN  IF has_original \/ has_descriptions
        THEN [original |-> has_original, descriptions |-> has_descriptions,
              duration |-> video_duration_current_clip]
        ELSE NoAudio

\* ------------------------------------------- generate_video_thread: the steps
\* The selection loop opens AudioFileClip(item.archivo_audio) for every item
\* of the list to read its duration and keeps no reference to close it by.
probed_audio_files(ads) ==
    Cardinality({i \in 1..Len(ads) : AudioFileClip_loads(ads[i].archivo_audio)})

WorkerArgs == <<audiodescriptions, video_duration, video_has_audio, worker,
                is_preview, start_time_sec, end_time_sec, temp_preview_files,
                output_path, gui_vars>>

WorkerFrame == <<WorkerArgs, tmp_dir>>

\* except Exception / finally of generate_video_thread, and the (False, e)
\* return of generate_video_with_ads reported by run_video_generation_thread
RenderFails ==
    /\ dialogs' = dialogs \cup {"error"}
    /\ result' = "error"
    /\ pc' = "done"
    /\ output' = NoOutput
    /\ UNCHANGED open_handles

\* VideoFileClip(self.video_file), the window's bounds and the range check
thread_load_video ==
    /\ pc = "load" /\ worker = "thread"
    /\ \/ /\ RenderFails
          /\ progress' = 10
          /\ UNCHANGED <<start_time_actual, end_time_actual>>
       \/ LET video_duration_full == VideoDuration
              end_time == IF end_time_sec = None
                          THEN video_duration_full
                          ELSE end_time_sec
              s == Max(0, start_time_sec)
              e == Min(video_duration_full, end_time)
          IN  /\ start_time_actual' = s
              /\ end_time_actual' = e
              /\ IF s >= e
                 THEN /\ dialogs' = dialogs \cup {"invalid_range"}
                      /\ result' = "invalid_range"
                      /\ pc' = "done"
                      /\ progress' = 10
                      /\ UNCHANGED open_handles
                 ELSE /\ pc' = "select"
                      /\ progress' = 20
                      /\ open_handles' = [open_handles EXCEPT !.video = 1]
                      /\ UNCHANGED <<dialogs, result>>
              /\ UNCHANGED output
    /\ UNCHANGED <<WorkerFrame, sorted_relevant_descriptions, idx,
                   clips_audio_descripcion,
                   last_audio_actual_end_time_in_clip, audio_final>>

\* The selection loop and the sort
thread_select ==
    /\ pc = "select" /\ worker = "thread"
    /\ sorted_relevant_descriptions' =
          sorted_by_tiempo(
              relevant_descriptions(audiodescriptions, start_time_actual,
                                    end_time_actual),
              audiodescriptions)
    /\ idx' = 1
    /\ clips_audio_descripcion' = <<>>
    /\ last_audio_actual_end_time_in_clip' = 0
    /\ pc' = "place"
    /\ open_handles' =
          [open_handles EXCEPT !.audio = @ + probed_audio_files(audiodescriptions)]
    /\ UNCHANGED <<WorkerFrame, start_time_actual, end_time_actual,
                   audio_final, dialogs, output, result, progress>>

\* One iteration of the placement loop
thread_place_item ==
    /\ pc = "place" /\ worker = "thread"
    /\ idx <= Len(sorted_relevant_descriptions)
    /\ LET k == sorted_relevant_descriptions[idx]
           r == place_item(k, audiodescriptions[k], start_time_actual,
                           end_time_actual - start_time_actual,
                           last_audio_actual_end_time_in_clip)
       IN  /\ clips_audio_descripcion' =
                IF r.outcome = "placed"
                THEN Append(clips_audio_descripcion, r.clip)
                ELSE clips_audio_descripcion
           /\ last_audio_actual_end_time_in_clip' =
                IF r.outcome = "placed"
                THEN r.clip.start + r.clip.duration
                ELSE last_audio_actual_end_time_in_clip
           /\ dialogs' =
                IF r.outcome = "load_error"
                THEN dialogs \cup {"audio_error"}
                ELSE dialogs
           /\ open_handles' =
                IF r.outcome \in {"missing", "load_error"}
                THEN open_handles
                ELSE [open_handles EXCEPT !.audio = @ + 1]
    /\ idx' = idx + 1
    /\ UNCHANGED <<WorkerFrame, pc, start_time_actual, end_time_actual,
                   sorted_relevant_descriptions, audio_final, output, result,
                   progress>>

\* The mix: composite of the clips, the windowed original audio, audio_final
thread_mix ==
    /\ pc = "place" /\ worker = "thread"
    /\ idx > Len(sorted_relevant_descriptions)
    /\ audio_final' = thread_audio_final(video_has_audio,
                                         clips_audio_descripcion,
                                         end_time_actual - start_time_actual)
    /\ dialogs' = IF audio_final' = NoAudio
                  THEN dialogs \cup {"no_audio_warning"}
                  ELSE dialogs
    /\ pc' = "write"
    /\ progress' = 90
    /\ UNCHANGED <<WorkerFrame, start_time_actual, end_time_actual,
                   sorted_relevant_descriptions, idx, clips_audio_descripcion,
                   last_audio_actual_end_time_in_clip, output, result,
                   open_handles>>

\* video.set_audio(audio_final).write_videofile(...), then the report
thread_write ==
    /\ pc = "write" /\ worker = "thread"
    /\ \/ /\ RenderFails
          /\ UNCHANGED <<progress, tmp_dir>>
       \/ /\ output' = [written |-> TRUE,
                        video_duration |-> end_time_actual - start_time_actual,
                        audio |-> audio_final]
          /\ dialogs' = IF is_preview THEN dialogs ELSE dialogs \cup {"success"}
          /\ result' = "ok"
          /\ pc' = "done"
          /\ progress' = 100
          /\ open_handles' = [open_handles EXCEPT !.video = 0]
          /\ tmp_dir' = IF is_preview THEN tmp_dir \cup {output_path}
                                      ELSE tmp_dir
    /\ UNCHANGED <<WorkerArgs, start_time_actual, end_time_actual,
                   sorted_relevant_descriptions, idx, clips_audio_descripcion,
                   last_audio_actual_end_time_in_clip, audio_final>>

\* ------------------------------------------- generate_video_with_ads
\* AudioFileClip(item.archivo_audio).set_start(item.tiempo)
ads_clip(k, item) ==
    [item |-> k, start |-> item.tiempo,
     duration |-> AudioFileClip_duration(item.archivo_audio), offset |-> 0]

\* final_audio: the composite of the sides that are present (its duration is
\* that of its longest side), or no audio when neither is
ads_final_audio(has_original, clips, video_duration_full) ==
    LET has_descriptions == Len(clips) > 0
    IN  IF has_original \/ has_descriptions
        THEN [original |-> has_original, descriptions |-> has_descriptions,
              duration |-> Max(IF has_original THEN video_duration_full ELSE 0,
                               composite_duration(clips))]
        ELSE NoAudio

\* VideoFileClip(video_path): the render covers the whole video
ads_load_video ==
    /\ pc = "load" /\ worker = "ads"
    /\ \/ /\ RenderFails
          /\ progress' = 10
          /\ UNCHANGED <<start_time_actual, end_time_actual>>
       \/ /\ start_time_actual' = 0
          /\ end_time_actual' = VideoDuration
          /\ pc' = "place"
          /\ progress' = 20
          /\ open_handles' = [open_handles EXCEPT !.video = 1]
          /\ UNCHANGED <<dialogs, result, output>>
    /\ UNCHANGED <<WorkerFrame, sorted_relevant_descriptions, idx,
                   clips_audio_descripcion,
                   last_audio_actual_end_time_in_clip, audio_final>>

\* ads_place_item without the try/except around the load: a file that does
\* not load ends the render
ads_place_item_aborts ==
    /\ pc = "place" /\ worker = "ads"
    /\ idx <= Len(audiodescriptions)
    /\ IF AudioFileClip_loads(audiodescriptions[idx].archivo_audio)
       THEN /\ clips_audio_descripcion' =
                  Append(clips_audio_descripcion,
                         ads_clip(idx, audiodescriptions[idx]))
            /\ idx' = idx + 1
            /\ open_handles' = [open_handles EXCEPT !.audio = @ + 1]
            /\ UNCHANGED <<pc, dialogs, output, result>>
       ELSE /\ RenderFails
            /\ UNCHANGED <<clips_audio_descripcion, idx>>
    /\ UNCHANGED <<WorkerFrame, start_time_actual, end_time_actual,
                   sorted_relevant_descriptions,
                   last_audio_actual_end_time_in_clip, audio_final, progress>>

\* One iteration of "for item in audio_items": a clip, or a printed warning
ads_place_item ==
    /\ pc = "place" /\ worker = "ads"
    /\ idx <= Len(audiodescriptions)
    /\ clips_audio_descripcion' =
          IF AudioFileClip_loads(audiodescriptions[idx].archivo_audio)
          THEN Append(clips_audio_descripcion,
                      ads_clip(idx, audiodescriptions[idx]))
          ELSE clips_audio_descripcion
    /\ open_handles' =
          IF AudioFileClip_loads(audiodescriptions[idx].archivo_audio)
          THEN [open_handles EXCEPT !.audio = @ + 1]
          ELSE open_handles
    /\ idx' = idx + 1
    /\ UNCHANGED <<WorkerFrame, pc, start_time_actual, end_time_actual,
                   sorted_relevant_descriptions,
                   last_audio_actual_end_time_in_clip, audio_final, dialogs,
                   output, result, progress>>

\* The two composites and video.set_audio
ads_mix ==
    /\ pc = "place" /\ worker = "ads"
    /\ idx > Len(audiodescriptions)
    /\ audio_final' = ads_final_audio(video_has_audio, clips_audio_descripcion,
                                      VideoDuration)
    /\ pc' = "write"
    /\ progress' = 80
    /\ UNCHANGED <<WorkerFrame, start_time_actual, end_time_actual,
                   sorted_relevant_descriptions, idx, clips_audio_descripcion,
                   last_audio_actual_end_time_in_clip, dialogs, output, result,
                   open_handles>>

\* ads_write with the outcome of write_videofile ignored: the (True, None)
\* return and the success report also follow a write that raised
ads_write_reports_success ==
    /\ pc = "write" /\ worker = "ads"
    /\ \/ /\ output' = NoOutput
          /\ UNCHANGED open_handles
       \/ /\ output' = [written |-> TRUE,
                        video_duration |-> VideoDuration,
                        audio |-> audio_final]
          /\ open_handles' = NoHandles
    /\ dialogs' = dialogs \cup {"success"}
    /\ result' = "ok"
    /\ pc' = "done"
    /\ progress' = 100
    /\ UNCHANGED <<WorkerFrame, start_time_actual, end_time_actual,
                   sorted_relevant_descriptions, idx, clips_audio_descripcion,
                   last_audio_actual_end_time_in_clip, audio_final>>

\* write_videofile and the (True, None) return, reported by
\* run_video_generation_thread
ads_write ==
    /\ pc = "write" /\ worker = "ads"
    /\ \/ /\ RenderFails
          /\ UNCHANGED progress
       \/ /\ output' = [written |-> TRUE,
                        video_duration |-> VideoDuration,
                        audio |-> audio_final]
          /\ dialogs' = dialogs \cup {"success"}
          /\ result' = "ok"
          /\ pc' = "done"
          /\ progress' = 100
          /\ open_handles' = NoHandles
    /\ UNCHANGED <<WorkerFrame, start_time_actual, end_time_actual,
                   sorted_relevant_descriptions, idx, clips_audio_descripcion,
                   last_audio_actual_end_time_in_clip, audio_final>>

\* ------------------------------------------------------- the specification
Next ==
    \/ MlAudesc_on_generate
    \/ on_preview_full_video
    \/ on_preview_specific_section
    \/ on_generate
    \/ FileRemovedExternally
    \/ thread_load_video
    \/ thread_select
    \/ thread_place_item
    \/ thread_mix
    \/ thread_write
    \/ ads_load_video
    \/ ads_place_item
    \/ ads_mix
    \/ ads_write

Spec == Init /\ [][Next]_vars

\* -------------------------------------------- ml-audesc.py: the session
\* ml-audesc.py on_clear_project, confirmed: the video, the list and the
\* output settings are reset; taken here with no render running
MlAudesc_on_clear_project ==
    /\ pc \in {"idle", "done"}
    /\ audiodescriptions' = <<>>
    /\ video_duration' = 0
    /\ UNCHANGED <<video_has_audio, pc, worker, is_preview, start_time_sec,
                   end_time_sec, start_time_actual, end_time_actual,
                   sorted_relevant_descriptions, idx, clips_audio_descripcion,
                   last_audio_actual_end_time_in_clip, audio_final, dialogs,
                   output, result, open_handles, progress,
                   temp_preview_files, output_path, tmp_dir>>
    /\ UNCHANGED gui_vars

\* ml-audesc.py clean_temp_files: os.remove for every tracked path that
\* exists, then the list is cleared
MlAudesc_clean_temp_files ==
    /\ tmp_dir' = tmp_dir \ temp_preview_files
    /\ temp_preview_files' = {}

\* ml-audesc.py save_project_state_and_exit, on EVT_CLOSE: the autosave, the
\* cleanup, and the window closes; the daemon threads end with the process
MlAudesc_save_project_state_and_exit ==
    /\ pc # "closed"
    /\ MlAudesc_clean_temp_files
    /\ pc' = "closed"
    /\ UNCHANGED <<audiodescriptions, video_duration, video_has_audio, worker,
                   is_preview, start_time_sec, end_time_sec,
                   start_time_actual, end_time_actual,
                   sorted_relevant_descriptions, idx, clips_audio_descripcion,
                   last_audio_actual_end_time_in_clip, audio_final, dialogs,
                   output, result, open_handles, progress, output_path>>
    /\ UNCHANGED gui_vars

SessionNext ==
    \/ MlAudesc_on_generate
    \/ on_preview_full_video
    \/ on_preview_specific_section
    \/ FileRemovedExternally
    \/ thread_load_video
    \/ thread_select
    \/ thread_place_item
    \/ thread_mix
    \/ thread_write
    \/ MlAudesc_on_clear_project
    \/ MlAudesc_save_project_state_and_exit

SessionSpec == Init /\ [][SessionNext]_vars

\* The duration of the rendered file: that of its longest stream
OutputDuration(o) == Max(o.video_duration, o.audio.duration)

\* ==================================================== gui.py: the window
\* An AudioDescriptionItem of models.py as gui.py holds it
GuiItem(t, path, text) ==
    [tiempo |-> t, archivo_audio |-> path, descripcion |-> text]

NoObjects == [id \in {} |-> GuiItem(0, EmptyPath, "")]

\* os.path.exists of an item's archivo_audio: the user's files stay where
\* they are, a scratch file exists once written and until its directory goes
path_exists(path, files) == path.dir = -1 \/ path \in files

\* item.archivo_audio and os.path.exists(item.archivo_audio)
has_audio_file(item, files) ==
    item.archivo_audio # EmptyPath /\ path_exists(item.archivo_audio, files)

\* not item.archivo_audio and item.descripcion
is_pending(item) == item.archivo_audio = EmptyPath /\ item.descripcion # ""

\* can_generate_video without its test of MOVIEPY_AVAILABLE
can_generate_video_without_moviepy(f, h, files, e) ==
    /\ f.video_file # ""
    /\ Len(f.audiodescriptions) > 0
    /\ \A k \in 1..Len(f.audiodescriptions) :
          has_audio_file(h[f.audiodescriptions[k]], files)

can_generate_video(f, h, files, e) ==
    /\ e.MOVIEPY_AVAILABLE
    /\ f.video_file # ""
    /\ Len(f.audiodescriptions) > 0
    /\ \A k \in 1..Len(f.audiodescriptions) :
          has_audio_file(h[f.audiodescriptions[k]], files)

can_generate_tts(f, h, e) ==
    /\ e.COMTYPES_AVAILABLE
    /\ e.sapi_voices > 0
    /\ Len(f.audiodescriptions) > 0
    /\ \E k \in 1..Len(f.audiodescriptions) :
          is_pending(h[f.audiodescriptions[k]])

update_action_buttons_state(f, h, files, e) ==
    [f EXCEPT !.generate_btn = can_generate_video(f, h, files, e),
              !.generate_tts_btn = can_generate_tts(f, h, e)]

\* The rows update_ad_list_ctrl inserts: the time, the file's base name (the
\* pending marker for an empty path) and the text
list_rows(ids, h) ==
    [k \in 1..Len(ids) |->
        [tiempo |-> h[ids[k]].tiempo,
         audio_display |-> basename(h[ids[k]].archivo_audio),
         descripcion |-> h[ids[k]].descripcion]]

\* The rows and the buttons refreshed, the list left in the order it has
update_ad_list_ctrl_unsorted(f, h, files, e) ==
    update_action_buttons_state(
        [f EXCEPT !.ad_list_ctrl = list_rows(f.audiodescriptions, h)],
        h, files, e)

\* update_ad_list_ctrl: the list is replaced by itself sorted by time, the
\* rows are inserted in that order, the buttons follow
update_ad_list_ctrl(f, h, files, e) ==
    LET sorted_descriptions == sorted_by_tiempo(f.audiodescriptions, h)
    IN  update_action_buttons_state(
            [f EXCEPT !.audiodescriptions = sorted_descriptions,
                      !.ad_list_ctrl = list_rows(sorted_descriptions, h)],
            h, files, e)

\* clean_temp_files: the scratch directory goes with everything in it and
\* the frame forgets it
clean_temp_files_fs(f, files) ==
    IF f.temp_tts_dir > 0 /\ f.temp_tts_dir \in files.dirs
    THEN [files EXCEPT !.dirs = @ \ {f.temp_tts_dir},
                       !.files = {p \in @ : p.dir # f.temp_tts_dir}]
    ELSE files

clean_temp_files_frame(f) == [f EXCEPT !.temp_tts_dir = 0]

\* update_video_duration: the duration VideoFileClip reads, 0 when it raises
update_video_duration(f, readable) ==
    [f EXCEPT !.video_duration =
        IF f.video_file # "" /\ readable THEN GuiVideoDuration ELSE 0]

\* The objects something still refers to: the list and the running batches
live_objects(f, th) ==
    {f.audiodescriptions[k] : k \in 1..Len(f.audiodescriptions)}
    \cup UNION {{th[s].items_to_generate[k] :
                    k \in 1..Len(th[s].items_to_generate)} : s \in DOMAIN th}

\* Python frees an object nobody refers to
collect(h, f, th) ==
    [id \in DOMAIN h \cap live_objects(f, th) |-> h[id]]

\* The identity of the next object created
new_object(h) ==
    CHOOSE n \in 1..(Cardinality(DOMAIN h) + 1) :
        /\ n \notin DOMAIN h
        /\ \A m \in 1..(n - 1) : m \in DOMAIN h

\* h with a new object in it
with_object(h, id, item) ==
    [k \in DOMAIN h \cup {id} |-> IF k = id THEN item ELSE h[k]]

\* A list without its k-th entry: del self.audiodescriptions[index]
without_index(seq, k) ==
    [j \in 1..(Len(seq) - 1) |-> IF j < k THEN seq[j] ELSE seq[j + 1]]

InFlight(th) == {s \in DOMAIN th : th[s].target # "none"}

\* ------------------------------------------------- gui.py: the handlers
\* f"{video_path.stem}_con_audiodescripcion{video_path.suffix}"
output_name(file_path) ==
    IF file_path = "clip.mp4" THEN "clip_con_audiodescripcion.mp4"
    ELSE "_con_audiodescripcion"

\* on_browse_video / on_drop_video_file: the video, its duration (0 when
\* VideoFileClip raises, as it does without MoviePy), the output's name
on_drop_video_file ==
    /\ user_acts
    /\ \E file_path \in VideoFiles, readable \in BOOLEAN :
          /\ readable => env.MOVIEPY_AVAILABLE
          /\ frame' =
               update_action_buttons_state(
                   update_video_duration(
                       [frame EXCEPT !.video_file = file_path,
                                     !.output_ctrl = output_name(file_path)],
                       readable),
                   objects, fs.files, env)
    /\ UNCHANGED <<objects, fs, threads, events, project_file, env,
                   render_vars>>

\* on_add_audiodescription: a time within the video, then an audio file with
\* an optional text, or a text to synthesize
on_add_audiodescription ==
    /\ user_acts
    /\ frame.video_file # ""
    /\ Len(frame.audiodescriptions) < MaxGuiItems
    /\ \E tiempo \in 0..frame.video_duration, source \in {"file", "tts"},
          desc_text \in Texts \cup {""} :
          /\ source = "tts" => desc_text # ""
          /\ LET id == new_object(objects)
                 item == GuiItem(tiempo,
                                 IF source = "file" THEN UserAudioFile
                                                    ELSE EmptyPath,
                                 desc_text)
                 h == with_object(objects, id, item)
             IN  /\ objects' = h
                 /\ frame' = update_ad_list_ctrl(
                        [frame EXCEPT !.audiodescriptions = Append(@, id)],
                        h, fs.files, env)
    /\ UNCHANGED <<fs, threads, events, project_file, env, render_vars>>

\* on_edit_audiodescription: the selected row's item gets the new text, and
\* loses its audio when that was synthesized into the scratch directory
on_edit_audiodescription ==
    /\ user_acts
    /\ \E index \in 1..Len(frame.ad_list_ctrl), new_desc \in Texts :
          /\ index <= Len(frame.audiodescriptions)
          /\ LET id == frame.audiodescriptions[index]
                 item_to_edit ==
                     [objects[id] EXCEPT
                         !.descripcion = new_desc,
                         !.archivo_audio =
                             IF in_temp_tts_dir(@, frame.temp_tts_dir)
                             THEN EmptyPath ELSE @]
                 h == [objects EXCEPT ![id] = item_to_edit]
             IN  /\ objects' = h
                 /\ frame' = update_ad_list_ctrl(frame, h, fs.files, env)
    /\ UNCHANGED <<fs, threads, events, project_file, env, render_vars>>

\* on_remove_audiodescription_from_list, confirmed
on_remove_audiodescription_from_list ==
    /\ user_acts
    /\ \E index \in 1..Len(frame.ad_list_ctrl) :
          /\ index <= Len(frame.audiodescriptions)
          /\ LET f == [frame EXCEPT
                         !.audiodescriptions = without_index(@, index)]
             IN  /\ frame' = update_ad_list_ctrl(f, objects, fs.files, env)
                 /\ objects' = collect(objects, f, threads)
    /\ UNCHANGED <<fs, threads, events, project_file, env, render_vars>>

\* on_clear_project, confirmed
on_clear_project ==
    /\ user_acts
    /\ LET f == [clean_temp_files_frame(frame) EXCEPT
                    !.video_file = "", !.video_duration = 0,
                    !.audiodescriptions = <<>>]
           files == clean_temp_files_fs(frame, fs)
       IN  /\ fs' = files
           /\ frame' = update_ad_list_ctrl(f, objects, files.files, env)
           /\ objects' = collect(objects, f, threads)
    /\ UNCHANGED <<threads, events, project_file, env, render_vars>>

\* self.audiodescriptions.append(item) for each item, in order
RECURSIVE append_items(_, _, _)
append_items(h, ids, items) ==
    IF items = <<>> THEN [objects |-> h, ids |-> ids]
    ELSE LET id == new_object(h)
         IN  append_items(with_object(h, id, Head(items)), Append(ids, id),
                          Tail(items))

\* What a subtitle entry says: one line, or two
SrtContents == {"a", "a\nb"}

\* The subtitle files a user imports: entries with a start and a content
SrtFilesOf(contents) ==
    UNION {[1..n -> [start : 0..GuiVideoDuration, content : contents]] :
              n \in 1..MaxGuiItems}

SrtFiles == SrtFilesOf(SrtContents)

\* Those with one line to an entry
OneLineSrtFiles == SrtFilesOf(Texts)

\* sub.content.replace('\n', ' ')
replace_newlines(content) == IF content = "a\nb" THEN "a b" ELSE content

\* Confirmed, but the list is not cleared before the items are appended
srt_import_onto_list(subs) ==
    LET r == append_items(
                 objects, frame.audiodescriptions,
                 [k \in 1..Len(subs) |->
                     GuiItem(subs[k].start, EmptyPath,
                             replace_newlines(subs[k].content))])
    IN  /\ fs' = fs
        /\ objects' = r.objects
        /\ frame' = update_ad_list_ctrl(
               [frame EXCEPT !.audiodescriptions = r.ids],
               r.objects, fs.files, env)

\* The user confirms: the list is cleared, the scratch directory removed, and
\* every entry becomes a pending item; the list control is refreshed
srt_import_confirmed(subs) ==
    LET f == [clean_temp_files_frame(frame) EXCEPT
                 !.audiodescriptions = <<>>]
        files == clean_temp_files_fs(frame, fs)
        r == append_items(
                 collect(objects, f, threads), <<>>,
                 [k \in 1..Len(subs) |->
                     GuiItem(subs[k].start, EmptyPath,
                             replace_newlines(subs[k].content))])
    IN  /\ fs' = files
        /\ objects' = r.objects
        /\ frame' = update_ad_list_ctrl(
               [f EXCEPT !.audiodescriptions = r.ids],
               r.objects, files.files, env)

\* load_srt_file returns an error, or no entry at all, or the user answers
\* no: a message at most, and the handler returns
srt_import_abandoned ==
    /\ UNCHANGED <<frame, objects, fs>>

\* on_import_srt_project: a video is set; the file, one of srt_files, parses
\* into entries and the user confirms, or the import is abandoned
on_import_srt_project(srt_files) ==
    /\ user_acts
    /\ frame.video_file # ""
    /\ \/ \E subs \in srt_files : srt_import_confirmed(subs)
       \/ srt_import_abandoned
    /\ UNCHANGED <<threads, events, project_file, env, render_vars>>

\* threading.Thread(...).start() in the first slot nobody runs in
free_slot(th) ==
    CHOOSE s \in DOMAIN th :
        /\ th[s].target = "none"
        /\ \A r \in DOMAIN th : th[r].target = "none" => s <= r

\* on_generate_tts_audios with every item that has a text in the batch,
\* pending or not; the scratch directory is made when there is none; both
\* buttons go off and the thread starts
on_generate_tts_audios_every_text ==
    /\ user_acts
    /\ frame.generate_tts_btn
    /\ LET Pending(id) == objects[id].descripcion # ""
           items_to_generate == SelectSeq(frame.audiodescriptions, Pending)
           make_dir == frame.temp_tts_dir = 0
                       \/ frame.temp_tts_dir \notin fs.dirs
           dir == IF make_dir THEN fs.created + 1 ELSE frame.temp_tts_dir
       IN  /\ items_to_generate # <<>>
           /\ env.COMTYPES_AVAILABLE /\ env.sapi_voices > 0
           /\ make_dir => fs.created < MaxTtsDirs
           /\ InFlight(threads) # DOMAIN threads
           /\ fs' = IF make_dir
                    THEN [fs EXCEPT !.dirs = @ \cup {dir}, !.created = dir]
                    ELSE fs
           /\ frame' = [frame EXCEPT !.temp_tts_dir = dir,
                                     !.generate_tts_btn = FALSE,
                                     !.generate_btn = FALSE]
           /\ threads' = [threads EXCEPT ![free_slot(threads)] =
                             [IdleThread EXCEPT
                                 !.target = "tts", !.pc = "start",
                                 !.items_to_generate = items_to_generate]]
    /\ UNCHANGED <<objects, events, project_file, env, render_vars>>

\* on_generate_tts_audios: the button is there to be clicked; the batch is
\* the pending items; the scratch directory is made when there is none; both
\* buttons go off and the thread starts
on_generate_tts_audios ==
    /\ user_acts
    /\ frame.generate_tts_btn
    /\ LET Pending(id) == is_pending(objects[id])
           items_to_generate == SelectSeq(frame.audiodescriptions, Pending)
           make_dir == frame.temp_tts_dir = 0
                       \/ frame.temp_tts_dir \notin fs.dirs
           dir == IF make_dir THEN fs.created + 1 ELSE frame.temp_tts_dir
       IN  /\ items_to_generate # <<>>
           /\ env.COMTYPES_AVAILABLE /\ env.sapi_voices > 0
           /\ make_dir => fs.created < MaxTtsDirs
           /\ InFlight(threads) # DOMAIN threads
           /\ fs' = IF make_dir
                    THEN [fs EXCEPT !.dirs = @ \cup {dir}, !.created = dir]
                    ELSE fs
           /\ frame' = [frame EXCEPT !.temp_tts_dir = dir,
                                     !.generate_tts_btn = FALSE,
                                     !.generate_btn = FALSE]
           /\ threads' = [threads EXCEPT ![free_slot(threads)] =
                             [IdleThread EXCEPT
                                 !.target = "tts", !.pc = "start",
                                 !.items_to_generate = items_to_generate]]
    /\ UNCHANGED <<objects, events, project_file, env, render_vars>>

\* on_generate without its three checks: the button is enough
MainFrame_on_generate_unchecked ==
    /\ user_acts
    /\ frame.generate_btn
    /\ InFlight(threads) # DOMAIN threads
    /\ frame' = [frame EXCEPT !.generate_btn = FALSE,
                              !.generate_tts_btn = FALSE]
    /\ threads' = [threads EXCEPT ![free_slot(threads)] =
                      [IdleThread EXCEPT !.target = "video", !.pc = "start"]]
    /\ UNCHANGED <<objects, fs, events, project_file, env, render_vars>>

\* gui.py on_generate: the button is there to be clicked; the three checks;
\* both buttons go off and the render thread starts
MainFrame_on_generate ==
    /\ user_acts
    /\ frame.generate_btn
    /\ frame.video_file # ""
    /\ Len(frame.audiodescriptions) > 0
    /\ \A k \in 1..Len(frame.audiodescriptions) :
          has_audio_file(objects[frame.audiodescriptions[k]], fs.files)
    /\ InFlight(threads) # DOMAIN threads
    /\ frame' = [frame EXCEPT !.generate_btn = FALSE,
                              !.generate_tts_btn = FALSE]
    /\ threads' = [threads EXCEPT ![free_slot(threads)] =
                      [IdleThread EXCEPT !.target = "video", !.pc = "start"]]
    /\ UNCHANGED <<objects, fs, events, project_file, env, render_vars>>

\* --------------------------------- processing.py: the batch's progress value
\* progress_percent = int(((i + 1) / total_items) * 100) is computed in
\* IEEE 754 double precision: the quotient is rounded to 53 significant bits,
\* so is the product, and int() drops the fraction.  Numbers too long for a
\* machine integer are kept as their binary digits, least significant first.
\* The sum of two such numbers and a carry of 0 or 1: a place receives a
\* carry when a lower place produced one and every place between passed it on
bits_add(a, b, carry) ==
    LET n == Max(Len(a), Len(b))
        x == [j \in 0..n |-> IF j = 0 THEN carry
                             ELSE IF j <= Len(a) THEN a[j] ELSE 0]
        y == [j \in 0..n |-> IF j = 0 THEN carry
                             ELSE IF j <= Len(b) THEN b[j] ELSE 0]
        carry_into(j) == \E m \in 0..(j - 1) :
                            /\ x[m] + y[m] = 2
                            /\ \A l \in (m + 1)..(j - 1) : x[l] + y[l] >= 1
        digit(j) == IF j > n THEN 1
                    ELSE (x[j] + y[j] + IF carry_into(j) THEN 1 ELSE 0) % 2
    IN  [j \in 1..(IF carry_into(n + 1) THEN n + 1 ELSE n) |-> digit(j)]

shift_left(a, s) == [j \in 1..s |-> 0] \o a

\* a * 100 = a * (64 + 32 + 4)
times_100(a) ==
    bits_add(bits_add(shift_left(a, 6), shift_left(a, 5), 0),
             shift_left(a, 2), 0)

RECURSIVE bits_value(_)
bits_value(a) == IF a = <<>> THEN 0 ELSE Head(a) + 2 * bits_value(Tail(a))

\* a / 2^d rounded to the nearest integer, ties to the even one
round_half_even(a, d) ==
    IF d = 0 THEN a
    ELSE LET kept == SubSeq(a, d + 1, Len(a))
             sticky == \E j \in 1..(d - 1) : a[j] = 1
             up == a[d] = 1 /\ (sticky \/ kept[1] = 1)
         IN  IF up THEN bits_add(kept, <<1>>, 0) ELSE kept

\* a cut to the 53 bits of a double's significand: the digits and how many
\* were dropped
to_double(a) ==
    LET d == Max(0, Len(a) - 53)
    IN  [digits |-> round_half_even(a, d), dropped |-> d]

\* The place e of the first binary digit 1 of r/n (0 < r < n), and r * 2^(e-1)
RECURSIVE first_one(_, _)
first_one(r, n) ==
    IF 2 * r >= n THEN [e |-> 1, r |-> r]
    ELSE LET next == first_one(2 * r, n)
         IN  [e |-> next.e + 1, r |-> next.r]

\* The next count binary digits of r/n (r < n), most significant first, and
\* the remainder left
RECURSIVE pow2_mod(_, _)
pow2_mod(j, n) ==
    IF j = 0 THEN 1 % n
    ELSE LET h == pow2_mod(j \div 2, n)
         IN  (h * h * (IF j % 2 = 1 THEN 2 ELSE 1)) % n

quotient_bits(r, n, count) ==
    [digits |-> [j \in 1..count |->
                    IF 2 * ((r * pow2_mod(j - 1, n)) % n) >= n THEN 1 ELSE 0],
     r |-> (r * pow2_mod(count, n)) % n]

Reverse(s) == [j \in 1..Len(s) |-> s[Len(s) + 1 - j]]

\* The double k / n for 0 < k <= n, as digits * 2^-scale
double_quotient(k, n) ==
    IF k = n THEN [digits |-> <<1>>, scale |-> 0]
    ELSE LET f == first_one(k, n)
             q == quotient_bits(f.r, n, 54)
             exact == Reverse(q.digits) \* 54 digits, the lowest is the guard
             up == exact[1] = 1 /\ (q.r # 0 \/ exact[2] = 1)
             kept == SubSeq(exact, 2, 54)
         IN  [digits |-> IF up THEN bits_add(kept, <<1>>, 0) ELSE kept,
              scale |-> f.e + 52]

\* int((k / n) * 100)
int_percent_of(k, n) ==
    LET q == double_quotient(k, n)
        p == to_double(times_100(q.digits))
        scale == q.scale - p.dropped
    IN  IF scale >= Len(p.digits) THEN 0
        ELSE bits_value(SubSeq(p.digits, scale + 1, Len(p.digits)))

\* processing.py:51
progress_percent(i, total_items) == int_percent_of(i + 1, total_items)

\* ------------------------------- gui.py and processing.py: the TTS thread
\* run_tts_generation_thread up to the loop of generate_tts_audio_files:
\* the voice token is read with self.sapi_voices[self.selected_voice_index]
\* when there are voices (an index past them raises in the thread, outside
\* any try, and the thread ends there) and is None when there are none;
\* temp_dir is self.temp_tts_dir as it is now; without
\* comtypes the driver returns (False, ImportError) at once; progress 0 is
\* reported, and the engine starts or raises
tts_thread_start(s) ==
    /\ threads[s].target = "tts" /\ threads[s].pc = "start"
    /\ IF env.sapi_voices > 0 /\ frame.selected_voice_index >= env.sapi_voices
       THEN /\ threads' = [threads EXCEPT ![s] = IdleThread]
            /\ objects' = collect(objects, frame, threads')
       ELSE /\ UNCHANGED objects
            /\ IF ~env.COMTYPES_AVAILABLE
               THEN threads' = [threads EXCEPT ![s].pc = "returned",
                                               ![s].success = FALSE]
               ELSE \/ threads' = [threads EXCEPT
                                      ![s].pc = "loop",
                                      ![s].temp_dir = frame.temp_tts_dir,
                                      ![s].reported = <<0>>]
                    \/ threads' = [threads EXCEPT
                                      ![s].pc = "returned",
                                      ![s].temp_dir = frame.temp_tts_dir,
                                      ![s].reported = <<0>>,
                                      ![s].success = FALSE]
    /\ UNCHANGED <<frame, fs, events, project_file, env, user_actions,
                   render_vars>>

\* A pass that gives the item its path as soon as the file is opened, before
\* anything is spoken into it
tts_thread_item_path_first(s) ==
    /\ threads[s].target = "tts" /\ threads[s].pc = "loop"
    /\ threads[s].i < Len(threads[s].items_to_generate)
    /\ LET t == threads[s]
           id == t.items_to_generate[t.i + 1]
           output_file == output_filename(t.temp_dir, objects[id].tiempo, t.i)
           dir_there == t.temp_dir > 0 /\ t.temp_dir \in fs.dirs
       IN  \/ /\ dir_there
              /\ fs' = [fs EXCEPT !.files = @ \cup {output_file}]
              /\ objects' = [objects EXCEPT ![id].archivo_audio = output_file]
              /\ threads' = [threads EXCEPT
                                ![s].i = @ + 1,
                                ![s].reported =
                                    Append(@, progress_percent(
                                                  t.i,
                                                  Len(t.items_to_generate)))]
           \/ /\ \E opened \in BOOLEAN :
                    /\ opened => dir_there
                    /\ fs' = IF opened
                             THEN [fs EXCEPT !.files = @ \cup {output_file}]
                             ELSE fs
                    /\ objects' = IF opened
                                  THEN [objects EXCEPT
                                           ![id].archivo_audio = output_file]
                                  ELSE objects
              /\ threads' = [threads EXCEPT ![s].pc = "returned",
                                            ![s].success = FALSE]
    /\ UNCHANGED <<frame, events, project_file, env, user_actions, render_vars>>

\* One pass of "for i, item in enumerate(items_to_generate)": the file is
\* opened for writing, spoken into and closed, the item gets its path and the
\* percentage is reported; or one of these raises and the driver returns
\* (False, e), with the file left behind when the open went through
tts_thread_item(s) ==
    /\ threads[s].target = "tts" /\ threads[s].pc = "loop"
    /\ threads[s].i < Len(threads[s].items_to_generate)
    /\ LET t == threads[s]
           id == t.items_to_generate[t.i + 1]
           output_file == output_filename(t.temp_dir, objects[id].tiempo, t.i)
           dir_there == t.temp_dir > 0 /\ t.temp_dir \in fs.dirs
       IN  \/ /\ dir_there
              /\ fs' = [fs EXCEPT !.files = @ \cup {output_file}]
              /\ objects' = [objects EXCEPT ![id].archivo_audio = output_file]
              /\ threads' = [threads EXCEPT
                                ![s].i = @ + 1,
                                ![s].reported =
                                    Append(@, progress_percent(
                                                  t.i,
                                                  Len(t.items_to_generate)))]
           \/ /\ \E opened \in BOOLEAN :
                    /\ opened => dir_there
                    /\ fs' = IF opened
                             THEN [fs EXCEPT !.files = @ \cup {output_file}]
                             ELSE fs
              /\ threads' = [threads EXCEPT ![s].pc = "returned",
                                            ![s].success = FALSE]
              /\ UNCHANGED objects
    /\ UNCHANGED <<frame, events, project_file, env, user_actions, render_vars>>

\* The loop is over: progress_callback(100, ...) and return True, None
tts_thread_done(s) ==
    /\ threads[s].target = "tts" /\ threads[s].pc = "loop"
    /\ threads[s].i = Len(threads[s].items_to_generate)
    /\ threads' = [threads EXCEPT ![s].pc = "returned",
                                  ![s].success = TRUE,
                                  ![s].reported = Append(@, 100)]
    /\ UNCHANGED <<frame, objects, fs, events, project_file, env, user_actions,
                   render_vars>>

\* The end of run_tts_generation_thread: the error box or the list's
\* refresh, then the TTS button's Enable(True) and update_action_buttons_state,
\* all queued for the presentation thread
tts_thread_reports(s) ==
    /\ threads[s].target = "tts" /\ threads[s].pc = "returned"
    /\ events' = events
                 \o (IF threads[s].success THEN <<"update_ad_list_ctrl">>
                                           ELSE <<"MessageBox_error">>)
                 \o <<"generate_tts_btn_Enable", "update_action_buttons_state">>
    /\ threads' = [threads EXCEPT ![s] = IdleThread]
    /\ objects' = collect(objects, frame, threads')
    /\ UNCHANGED <<frame, fs, project_file, env, user_actions, render_vars>>

\* run_video_generation_thread: generate_video_with_ads returns (True, None)
\* or (False, e); the box for it and update_action_buttons_state are queued
run_video_generation_thread(s) ==
    /\ threads[s].target = "video" /\ threads[s].pc = "start"
    /\ \E success \in BOOLEAN :
          events' = events
                    \o <<IF success THEN "MessageBox_success"
                                    ELSE "MessageBox_error",
                         "update_action_buttons_state">>
    /\ threads' = [threads EXCEPT ![s] = IdleThread]
    /\ UNCHANGED <<frame, objects, fs, project_file, env, user_actions,
                   render_vars>>

\* The presentation thread runs the oldest call queued by wx.CallAfter
wx_CallAfter_runs ==
    /\ events # <<>>
    /\ events' = Tail(events)
    /\ frame' =
          CASE Head(events) = "update_ad_list_ctrl" ->
                   update_ad_list_ctrl(frame, objects, fs.files, env)
            [] Head(events) = "generate_tts_btn_Enable" ->
                   [frame EXCEPT !.generate_tts_btn = TRUE]
            [] Head(events) = "update_action_buttons_state" ->
                   update_action_buttons_state(frame, objects, fs.files, env)
            [] OTHER -> frame
    /\ UNCHANGED <<objects, fs, threads, project_file, env, user_actions,
                   render_vars>>

\* ------------------------------------- gui.py: the project document
\* dict.get(key, default)
get(data, key, default) == IF key \in DOMAIN data THEN data[key] ELSE default

\* The dict with no key in it
empty_dict == [key \in {} |-> 0]

RateRange == [min |-> -10, max |-> 10]

\* The parameters AudioDescriptionItem.__init__ takes
ItemKeys == {"tiempo", "archivo_audio", "descripcion"}

\* An item made of an entry's time and file, its text left out
AudioDescriptionItem_init_without_text(desc_data) ==
    GuiItem(get(desc_data, "tiempo", 0),
            get(desc_data, "archivo_audio", EmptyPath),
            "")

\* AudioDescriptionItem(**desc_data) for a dict of known keys: the defaults
\* of models.py for those that are missing
AudioDescriptionItem_init(desc_data) ==
    GuiItem(get(desc_data, "tiempo", 0),
            get(desc_data, "archivo_audio", EmptyPath),
            get(desc_data, "descripcion", ""))

\* The dict save_project_state builds; json.dump writes it and json.load
\* reads it back as it is: strings, numbers, lists and dicts with string keys
project_data(f, h) ==
    [video_file |-> f.video_file,
     audiodescriptions |->
         [k \in 1..Len(f.audiodescriptions) |->
             [tiempo |-> h[f.audiodescriptions[k]].tiempo,
              archivo_audio |-> h[f.audiodescriptions[k]].archivo_audio,
              descripcion |-> h[f.audiodescriptions[k]].descripcion]],
     output_file |-> f.output_ctrl,
     volume_original |-> f.vol_orig_ctrl,
     volume_description |-> f.vol_desc_ctrl,
     tts_settings |-> [voice_index |-> f.selected_voice_index,
                       rate |-> f.rate_slider]]

\* load_project_state once load_project has returned the document: the list
\* is cleared and the scratch directory removed, the controls take the
\* document's values or the defaults, the voice index is stored as read, and
\* the entries become items one by one; an entry with a key __init__ does
\* not take raises TypeError there, before the list control, the buttons and
\* the duration are refreshed
load_project_state(f, h, files, th, e, data, readable) ==
    LET cleared == [clean_temp_files_frame(f) EXCEPT !.audiodescriptions = <<>>]
        files_left == clean_temp_files_fs(f, files)
        tts_settings == get(data, "tts_settings", empty_dict)
        controls ==
            [cleared EXCEPT
                !.video_file = get(data, "video_file", ""),
                !.output_ctrl = get(data, "output_file", output_ctrl_default),
                !.vol_orig_ctrl =
                    SetValue_clamped(VolOrigRange,
                                     get(data, "volume_original", 6)),
                !.vol_desc_ctrl =
                    SetValue_clamped(VolDescRange,
                                     get(data, "volume_description", 15)),
                !.selected_voice_index = get(tts_settings, "voice_index", 0),
                !.rate_slider =
                    SetValue_clamped(RateRange, get(tts_settings, "rate", 0))]
        entries == get(data, "audiodescriptions", <<>>)
        rejected == {k \in 1..Len(entries) :
                        ~(DOMAIN entries[k] \subseteq ItemKeys)}
        taken == IF rejected = {} THEN Len(entries)
                 ELSE (CHOOSE k \in rejected :
                          \A l \in rejected : k <= l) - 1
        r == append_items(collect(h, cleared, th), <<>>,
                          [k \in 1..taken |->
                              AudioDescriptionItem_init(entries[k])])
        appended == [controls EXCEPT !.audiodescriptions = r.ids]
    IN  [frame |-> IF rejected = {}
                   THEN update_video_duration(
                            update_ad_list_ctrl(appended, r.objects,
                                                files_left.files, e),
                            readable)
                   ELSE appended,
         objects |-> r.objects,
         fs |-> files_left,
         raised |-> rejected # {}]

\* load_project returns (None, e): open() raised on any file, or json.load
\* on one that is not JSON; load_project_state shows the error and returns
load_project_error ==
    /\ UNCHANGED <<frame, objects, fs>>

\* load_project returns (None, None) for the document null and (list, None)
\* for a list: the error test passes, the list is cleared and the scratch
\* directory removed, and data.get raises AttributeError out of the handler
load_project_state_not_a_dict ==
    /\ project_file.json \in {"null", "list"}
    /\ LET cleared == [clean_temp_files_frame(frame) EXCEPT
                          !.audiodescriptions = <<>>]
       IN  /\ frame' = cleared
           /\ objects' = collect(objects, cleared, threads)
           /\ fs' = clean_temp_files_fs(frame, fs)

\* load_project returns (dict, None)
load_project_state_of_dict ==
    /\ project_file.json = "object"
    /\ \E readable \in BOOLEAN :
          /\ readable => env.MOVIEPY_AVAILABLE
          /\ LET loaded == load_project_state(frame, objects, fs, threads, env,
                                              project_file.data, readable)
             IN  /\ frame' = loaded.frame
                 /\ objects' = loaded.objects
                 /\ fs' = loaded.fs

\* on_import_project: the file at the path the user picks is loaded
on_import_project ==
    /\ user_acts
    /\ project_file.exists
    /\ \/ load_project_error
       \/ load_project_state_not_a_dict
       \/ load_project_state_of_dict
    /\ UNCHANGED <<threads, events, project_file, env, render_vars>>

\* on_export_project: save_project_state writes the document, or open()
\* raises and nothing is written
on_export_project ==
    /\ user_acts
    /\ \/ project_file' = [exists |-> TRUE, json |-> "object",
                           data |-> project_data(frame, objects)]
       \/ UNCHANGED project_file
    /\ UNCHANGED <<frame, objects, fs, threads, events, env, render_vars>>

\* A project exported on a machine with more voices, the second one selected
OtherMachineDocument ==
    [video_file |-> "clip.mp4",
     audiodescriptions |->
         <<[tiempo |-> 0, archivo_audio |-> EmptyPath, descripcion |-> "a"]>>,
     output_file |-> "clip_con_audiodescripcion.mp4",
     volume_original |-> 6,
     volume_description |-> 15,
     tts_settings |-> [voice_index |-> 1, rate |-> 0]]

\* Documents written by hand or by another version: a key nobody reads and
\* nothing else; an entry and the settings with keys missing; an entry with a
\* key of its own; gains past the controls' ranges
UnknownKeyDocument == [version |-> 2]

MissingKeysDocument ==
    [video_file |-> "clip.mp4",
     audiodescriptions |-> <<[tiempo |-> 1, descripcion |-> "a"]>>,
     tts_settings |-> [rate |-> 5]]

EntryKeyDocument ==
    [video_file |-> "clip.mp4",
     audiodescriptions |->
         <<[tiempo |-> 0, archivo_audio |-> UserAudioFile,
            descripcion |-> "a", id |-> 1]>>]

LoudDocument == [volume_original |-> 25, volume_description |-> 35]

ProjectDocuments ==
    {OtherMachineDocument, UnknownKeyDocument, MissingKeysDocument,
     EntryKeyDocument, LoudDocument}

\* A project document from elsewhere is put at the path
project_file_written(documents) ==
    /\ \E data \in documents :
          project_file' = [exists |-> TRUE, json |-> "object", data |-> data]
    /\ UNCHANGED <<frame, objects, fs, threads, events, env, user_actions,
                   render_vars>>

\* A file that is not a project document is put at the path: text that is
\* not JSON, the JSON value null, a JSON list
project_file_broken ==
    /\ \E json \in {"malformed", "null", "list"} :
          project_file' = [exists |-> TRUE, json |-> json]
    /\ UNCHANGED <<frame, objects, fs, threads, events, env, user_actions,
                   render_vars>>

\* ------------------------------------------ the window's specification
\* The compositor at rest, with no project of its own
RenderIdle ==
    /\ audiodescriptions = <<>>
    /\ video_duration = 0
    /\ video_has_audio = FALSE
    /\ pc = "idle"
    /\ worker = "none"
    /\ is_preview = FALSE
    /\ start_time_sec = 0
    /\ end_time_sec = None
    /\ start_time_actual = 0
    /\ end_time_actual = 0
    /\ sorted_relevant_descriptions = <<>>
    /\ idx = 1
    /\ clips_audio_descripcion = <<>>
    /\ last_audio_actual_end_time_in_clip = 0
    /\ audio_final = NoAudio
    /\ dialogs = {}
    /\ output = NoOutput
    /\ result = "none"
    /\ open_handles = NoHandles
    /\ progress = 0
    /\ temp_preview_files = {}
    /\ output_path = 0
    /\ tmp_dir = {}

\* MainFrame.__init__ with no autosaved project to load
GuiInit ==
    /\ RenderIdle
    /\ user_actions = 0
    /\ env \in Environments
    /\ frame = NewFrame(env)
    /\ objects = NoObjects
    /\ fs = NoFiles
    /\ threads = [s \in 1..MaxThreads |-> IdleThread]
    /\ events = <<>>
    /\ project_file = NoFile

GuiNext ==
    \/ on_drop_video_file
    \/ on_add_audiodescription
    \/ on_edit_audiodescription
    \/ on_remove_audiodescription_from_list
    \/ on_clear_project
    \/ on_import_srt_project(OneLineSrtFiles)
    \/ project_file_written({OtherMachineDocument})
    \/ on_import_project
    \/ on_generate_tts_audios
    \/ MainFrame_on_generate
    \/ \E s \in 1..MaxThreads : tts_thread_start(s)
    \/ \E s \in 1..MaxThreads : tts_thread_item(s)
    \/ \E s \in 1..MaxThreads : tts_thread_done(s)
    \/ \E s \in 1..MaxThreads : tts_thread_reports(s)
    \/ \E s \in 1..MaxThreads : run_video_generation_thread(s)
    \/ wx_CallAfter_runs

GuiSpec == GuiInit /\ [][GuiNext]_vars

\* ----------------------------------------- the TTS driver's specification
\* generate_tts_audio_files alone: on_generate_tts_audios has just started
\* the thread on a project of total_items pending items (an imported subtitle
\* file), the scratch directory made
TtsBatchInit ==
    /\ RenderIdle
    /\ user_actions = 0
    /\ env = AllAvailable
    /\ \E total_items \in 1..MaxBatch :
          LET ids == [k \in 1..total_items |-> k]
              h == [id \in 1..total_items |-> GuiItem(0, EmptyPath, "a")]
          IN  /\ objects = h
              /\ frame = [NewFrame(env) EXCEPT
                             !.video_file = "clip.mp4",
                             !.audiodescriptions = ids,
                             !.ad_list_ctrl = list_rows(ids, h),
                             !.temp_tts_dir = 1,
                             !.generate_btn = FALSE,
                             !.generate_tts_btn = FALSE]
              /\ threads = [s \in 1..MaxThreads |->
                               IF s = 1
                               THEN [IdleThread EXCEPT
                                        !.target = "tts", !.pc = "start",
                                        !.items_to_generate = ids]
                               ELSE IdleThread]
    /\ fs = [dirs |-> {1}, files |-> {}, created |-> 1]
    /\ events = <<>>
    /\ project_file = NoFile

TtsBatchNext ==
    \/ tts_thread_start(1)
    \/ tts_thread_item(1)
    \/ tts_thread_done(1)

TtsBatchSpec == TtsBatchInit /\ [][TtsBatchNext]_vars

\* ------------------------------------- the project file's specification
\* The items a project holds: an audio file the user picked, a text waiting
\* for its audio, a text synthesized into the scratch directory
ProjectItems(k) ==
    {GuiItem(t, UserAudioFile, text) :
        t \in 0..GuiVideoDuration, text \in Texts \cup {""}}
    \cup {GuiItem(t, EmptyPath, text) : t \in 0..GuiVideoDuration, text \in Texts}
    \cup {GuiItem(t, output_filename(1, t, k - 1), text) :
            t \in 0..GuiVideoDuration, text \in Texts}

\* The window with a project open and no worker running: the list sorted,
\* the rows and the buttons as update_ad_list_ctrl left them, the files of
\* the synthesized items in the scratch directory
ProjectInit ==
    /\ RenderIdle
    /\ user_actions = 0
    /\ env = AllAvailable
    /\ threads = [s \in 1..MaxThreads |-> IdleThread]
    /\ events = <<>>
    /\ project_file = NoFile
    /\ \E n \in 0..MaxGuiItems :
       \E h \in [1..n -> UNION {ProjectItems(k) : k \in 1..MaxGuiItems}] :
       \E vol_orig \in {6, 20}, vol_desc \in {15, 0}, rate \in {0, 5} :
          LET ids == [k \in 1..n |-> k]
              synthesized == {h[k].archivo_audio : k \in 1..n}
                             \ {EmptyPath, UserAudioFile}
              files == IF synthesized = {} THEN NoFiles
                       ELSE [dirs |-> {1}, files |-> synthesized, created |-> 1]
          IN  /\ \A k \in 1..n : h[k] \in ProjectItems(k)
              /\ \A k \in 1..(n - 1) : h[k].tiempo <= h[k + 1].tiempo
              /\ objects = h
              /\ fs = files
              /\ frame = update_ad_list_ctrl(
                             [NewFrame(env) EXCEPT
                                 !.video_file = "clip.mp4",
                                 !.video_duration = GuiVideoDuration,
                                 !.output_ctrl = output_name("clip.mp4"),
                                 !.audiodescriptions = ids,
                                 !.temp_tts_dir = files.created,
                                 !.vol_orig_ctrl = vol_orig,
                                 !.vol_desc_ctrl = vol_desc,
                                 !.rate_slider = rate],
                             h, files.files, env)

ProjectNext ==
    \/ on_export_project
    \/ project_file_written(ProjectDocuments)
    \/ project_file_broken
    \/ on_import_project

ProjectSpec == ProjectInit /\ [][ProjectNext]_vars

\* ------------------------------- the missing dependencies' specification
\* The window started with a library or the voices missing; or, without
\* comtypes, run_tts_generation_thread run all the same on a project of
\* pending items, to call generate_tts_audio_files
DependencyInit ==
    /\ \/ GuiInit
       \/ /\ RenderIdle
          /\ env \in Environments
          /\ ~env.COMTYPES_AVAILABLE
          /\ \E total_items \in 1..MaxGuiItems :
                LET ids == [k \in 1..total_items |-> k]
                    h == [id \in 1..total_items |-> GuiItem(0, EmptyPath, "a")]
                IN  /\ objects = h
                    /\ frame = [NewFrame(env) EXCEPT
                                   !.video_file = "clip.mp4",
                                   !.audiodescriptions = ids,
                                   !.ad_list_ctrl = list_rows(ids, h),
                                   !.generate_btn = FALSE,
                                   !.generate_tts_btn = FALSE]
                    /\ threads = [s \in 1..MaxThreads |->
                                     IF s = 1
                                     THEN [IdleThread EXCEPT
                                              !.target = "tts", !.pc = "start",
                                              !.items_to_generate = ids]
                                     ELSE IdleThread]
          /\ fs = NoFiles
          /\ events = <<>>
          /\ project_file = NoFile
          /\ user_actions = 0
    /\ env # AllAvailable

DependencySpec == DependencyInit /\ [][GuiNext]_vars

\* ----------------------------------- the subtitle import's specification
\* Subtitle files of every kind imported into a project at rest, time and
\* again
SrtNext ==
    \/ on_import_srt_project(SrtFiles)

SrtSpec == ProjectInit /\ [][SrtNext]_vars

\* =================================================================== claims
ClipEnd(c) == c.start + c.duration

\* The end of the clip placed before the j-th one; the timeline starts at 0
PrevEnd(j) ==
    IF j = 1 THEN 0 ELSE ClipEnd(clips_audio_descripcion[j - 1])

ClipsOf(i) ==
    {j \in 1..Len(clips_audio_descripcion) : clips_audio_descripcion[j].item = i}

WindowLength == end_time_actual - start_time_actual

\* Every item has been passed over and the tracks are ready to be written
Composed == pc = "write" \/ (pc = "done" /\ result = "ok")

Rendered == pc = "done" /\ result = "ok" /\ output.written

ItemIndices == 1..Len(audiodescriptions)

\* C1: in generate_video_thread every placed clip starts at
\* max(item.time - W_start, end of the previously placed clip), so a clip
\* whose own start falls before its predecessor's end starts exactly at that
\* end, and no two placed clips overlap.
C1_ClipsQueue ==
    worker = "thread" =>
        \A j \in 1..Len(clips_audio_descripcion) :
            LET c == clips_audio_descripcion[j]
                t == audiodescriptions[c.item].tiempo
            IN  /\ c.start = Max(t - start_time_actual, PrevEnd(j))
                /\ \A i \in 1..(j - 1) :
                      ClipEnd(clips_audio_descripcion[i]) <= c.start

\* C1 witness: a finished render whose second clip was pushed to the end of
\* the first (item 2 starts while item 1 is still sounding).
C1_Witness ==
    /\ worker = "thread" /\ Rendered
    /\ Len(clips_audio_descripcion) = 2
    /\ LET c1 == clips_audio_descripcion[1]
           c2 == clips_audio_descripcion[2]
       IN  /\ audiodescriptions[c2.item].tiempo - start_time_actual < ClipEnd(c1)
           /\ audiodescriptions[c2.item].tiempo > audiodescriptions[c1.item].tiempo
           /\ c2.start = ClipEnd(c1)

\* C2: in generate_video_thread an item is selected if and only if
\* W_start <= time < W_end, or time < W_start and time + clip duration >
\* W_start; no item starting at or after W_end is selected or placed.
C2_Selection ==
    (worker = "thread" /\ Composed) =>
        /\ {sorted_relevant_descriptions[n] :
                n \in 1..Len(sorted_relevant_descriptions)}
             = {i \in ItemIndices :
                  LET t == audiodescriptions[i].tiempo
                      d == audiodescriptions[i].archivo_audio.duration
                  IN  \/ (start_time_actual <= t /\ t < end_time_actual)
                      \/ (t < start_time_actual /\ t + d > start_time_actual)}
        /\ \A n \in 1..Len(sorted_relevant_descriptions) :
              audiodescriptions[sorted_relevant_descriptions[n]].tiempo
                  < end_time_actual
        /\ \A j \in 1..Len(clips_audio_descripcion) :
              audiodescriptions[clips_audio_descripcion[j].item].tiempo
                  < end_time_actual

\* C2 witness: one item selected because its clip is still sounding at
\* W_start, another left out because it starts at W_end or later.
C2_Witness ==
    /\ worker = "thread" /\ Rendered
    /\ \E n \in 1..Len(sorted_relevant_descriptions) :
          audiodescriptions[sorted_relevant_descriptions[n]].tiempo
              < start_time_actual
    /\ \E i \in ItemIndices :
          /\ audiodescriptions[i].tiempo >= end_time_actual
          /\ \A n \in 1..Len(sorted_relevant_descriptions) :
                sorted_relevant_descriptions[n] # i

\* An item that starts before the window and whose (loadable) clip is still
\* sounding at W_start
Straddles(i) ==
    /\ AudioFileClip_loads(audiodescriptions[i].archivo_audio)
    /\ audiodescriptions[i].tiempo < start_time_actual
    /\ audiodescriptions[i].tiempo
         + audiodescriptions[i].archivo_audio.duration > start_time_actual

\* C3 as stated: every item that starts before a and whose clip extends past
\* a is included, trimmed, and placed at window-relative offset 0.
C3_Original ==
    (worker = "thread" /\ Composed) =>
        \A i \in ItemIndices :
            Straddles(i) =>
                \E j \in ClipsOf(i) :
                    /\ clips_audio_descripcion[j].start = 0
                    /\ clips_audio_descripcion[j].offset =
                          start_time_actual - audiodescriptions[i].tiempo

\* C3 amended: every such item is selected; it is placed, with its leading
\* a - time trimmed off, at the end of the previously placed clip (offset 0
\* when no clip was placed before it), and it is dropped only when the clips
\* placed before it already fill the window.
C3_StraddlingItemsQueue ==
    (worker = "thread" /\ Composed) =>
        \A i \in ItemIndices :
            Straddles(i) =>
                /\ \E n \in 1..Len(sorted_relevant_descriptions) :
                      sorted_relevant_descriptions[n] = i
                /\ \/ /\ Cardinality(ClipsOf(i)) = 1
                      /\ \A j \in ClipsOf(i) :
                            /\ clips_audio_descripcion[j].start = PrevEnd(j)
                            /\ clips_audio_descripcion[j].offset =
                                  start_time_actual - audiodescriptions[i].tiempo
                   \/ /\ ClipsOf(i) = {}
                      /\ \E j \in 1..Len(clips_audio_descripcion) :
                            /\ clips_audio_descripcion[j].item < i
                            /\ ClipEnd(clips_audio_descripcion[j]) = WindowLength

\* C3 witness: two items straddle W_start; the first plays from offset 0,
\* the second is queued behind it.
C3_Witness ==
    /\ worker = "thread" /\ Rendered
    /\ Len(clips_audio_descripcion) = 2
    /\ Straddles(clips_audio_descripcion[1].item)
    /\ Straddles(clips_audio_descripcion[2].item)
    /\ clips_audio_descripcion[1].start = 0
    /\ clips_audio_descripcion[2].start > 0

FullWindow == start_time_actual = 0 /\ end_time_actual = VideoDuration

AllLoad ==
    \A i \in ItemIndices : AudioFileClip_loads(audiodescriptions[i].archivo_audio)

\* C4 as stated: for the window [0, D] and an item list whose audio files
\* all load, the placed clips contain one clip for every item with
\* time_seconds < D.
C4_Original ==
    (Composed /\ FullWindow /\ AllLoad) =>
        \A i \in ItemIndices :
            audiodescriptions[i].tiempo < VideoDuration =>
                Cardinality(ClipsOf(i)) = 1

\* C4 amended: for the window [0, D] and an item list whose audio files all
\* load, the placed clips contain one clip for every item with
\* time_seconds < D, except that generate_video_thread drops an item when a
\* clip placed before it already runs to D (its queued start is then D).
C4_FullWindowKeepsItems ==
    (Composed /\ FullWindow /\ AllLoad) =>
        \A i \in ItemIndices :
            audiodescriptions[i].tiempo < VideoDuration =>
                \/ Cardinality(ClipsOf(i)) = 1
                \/ /\ worker = "thread"
                   /\ ClipsOf(i) = {}
                   /\ \E j \in 1..Len(clips_audio_descripcion) :
                         /\ clips_audio_descripcion[j].item < i
                         /\ ClipEnd(clips_audio_descripcion[j]) = VideoDuration

\* C4 witness: a full-window render by generate_video_thread of two loadable
\* items that start before D, both placed.
C4_Witness ==
    /\ worker = "thread" /\ Rendered /\ FullWindow /\ AllLoad
    /\ Len(audiodescriptions) = 2
    /\ \A i \in ItemIndices :
          /\ audiodescriptions[i].tiempo < VideoDuration
          /\ Cardinality(ClipsOf(i)) = 1

\* C5: in generate_video_thread, with L = W_end - W_start, every placed clip
\* has 0 <= start < L and start + duration <= L; a clip that would extend
\* past the window end is truncated to end exactly at L, and no clip of zero
\* or negative duration is placed.
C5_ClipsInsideWindow ==
    worker = "thread" =>
        \A j \in 1..Len(clips_audio_descripcion) :
            LET c == clips_audio_descripcion[j]
                raw == audiodescriptions[c.item].archivo_audio.duration
            IN  /\ 0 <= c.start /\ c.start < WindowLength
                /\ ClipEnd(c) <= WindowLength
                /\ c.duration > 0
                /\ (c.start + (raw - c.offset) > WindowLength
                      => ClipEnd(c) = WindowLength)
                /\ (c.start + (raw - c.offset) <= WindowLength
                      => c.duration = raw - c.offset)

\* C5 witness: a placed clip that was cut short to end at the window's end.
C5_Witness ==
    /\ worker = "thread" /\ Rendered
    /\ \E j \in 1..Len(clips_audio_descripcion) :
          LET c == clips_audio_descripcion[j]
          IN  /\ c.duration
                   < audiodescriptions[c.item].archivo_audio.duration - c.offset
              /\ ClipEnd(c) = WindowLength

\* C6: in generate_video_thread an item that started before the window has
\* exactly its leading W_start - time trimmed off before placement (an item
\* at or after W_start has nothing trimmed), and an item whose trim offset is
\* at least its clip duration is not placed.
C6_LeadingPartTrimmed ==
    worker = "thread" =>
        /\ \A j \in 1..Len(clips_audio_descripcion) :
              LET c == clips_audio_descripcion[j]
                  t == audiodescriptions[c.item].tiempo
                  raw == audiodescriptions[c.item].archivo_audio.duration
              IN  /\ c.offset = (IF t < start_time_actual
                                 THEN start_time_actual - t ELSE 0)
                  /\ c.offset < raw
                  /\ c.offset + c.duration <= raw
        /\ \A i \in ItemIndices :
              (/\ audiodescriptions[i].tiempo < start_time_actual
               /\ start_time_actual - audiodescriptions[i].tiempo
                    >= audiodescriptions[i].archivo_audio.duration)
                 => ClipsOf(i) = {}

\* C6 witness: the spec's example in ticks: an item one tick before the
\* window with a two-tick clip is placed at 0 and runs one tick, while an
\* item whose clip ended before the window is not placed.
C6_Witness ==
    /\ worker = "thread" /\ Rendered
    /\ \E j \in 1..Len(clips_audio_descripcion) :
          LET c == clips_audio_descripcion[j]
          IN  /\ audiodescriptions[c.item].tiempo < start_time_actual
              /\ c.start = 0
              /\ c.offset = start_time_actual - audiodescriptions[c.item].tiempo
              /\ c.duration
                   = audiodescriptions[c.item].archivo_audio.duration - c.offset
    /\ \E i \in ItemIndices :
          /\ AudioFileClip_loads(audiodescriptions[i].archivo_audio)
          /\ audiodescriptions[i].tiempo
               + audiodescriptions[i].archivo_audio.duration <= start_time_actual
          /\ ClipsOf(i) = {}

\* C7: in generate_video_with_ads two clips that would overlap are
\* serialized, so placed description clips never overlap.
C7_AdsClipsNeverOverlap ==
    worker = "ads" =>
        \A i \in 1..Len(clips_audio_descripcion) :
            \A j \in 1..Len(clips_audio_descripcion) :
                i < j =>
                    ClipEnd(clips_audio_descripcion[i])
                        <= clips_audio_descripcion[j].start

\* An item the window selects: it starts inside it or straddles its start
InWindow(i) ==
    \/ (start_time_actual <= audiodescriptions[i].tiempo
          /\ audiodescriptions[i].tiempo < end_time_actual)
    \/ Straddles(i)

\* What the placed clips hold once every item has been passed over: nothing
\* of an item whose file is missing or does not load, and of the others what
\* the compositor places when the list holds no such item.
C8_ClipsOfTheOtherItems ==
    Composed =>
        \A i \in ItemIndices :
            IF ~AudioFileClip_loads(audiodescriptions[i].archivo_audio)
            THEN ClipsOf(i) = {}
            ELSE IF worker = "ads"
            THEN /\ Cardinality(ClipsOf(i)) = 1
                 /\ \A j \in ClipsOf(i) :
                       clips_audio_descripcion[j].start
                           = audiodescriptions[i].tiempo
            ELSE InWindow(i) =>
                    \/ Cardinality(ClipsOf(i)) = 1
                    \/ /\ ClipsOf(i) = {}
                       /\ \E j \in 1..Len(clips_audio_descripcion) :
                             /\ clips_audio_descripcion[j].item < i
                             /\ ClipEnd(clips_audio_descripcion[j]) = WindowLength

\* The pass over the items goes on to the next item or to the mix; it never
\* ends the render.
C8_PassGoesOn ==
    pc = "place" =>
        /\ pc' \in {"place", "write"}
        /\ result' = "running"
        /\ "error" \notin dialogs'

\* C8: when one item's audio file is missing or fails to load, that item is
\* skipped, the pass over the items does not abort, and the output is made
\* of the clips of all the other items.
C8_UnloadableItemSkipped ==
    [](C8_ClipsOfTheOtherItems) /\ [][C8_PassGoesOn]_vars

\* C8 witness: a written output that holds another item's clip although one
\* item's audio file is missing or does not decode.
C8_Witness ==
    /\ Rendered
    /\ Len(clips_audio_descripcion) = 1
    /\ \E i \in ItemIndices :
          ~AudioFileClip_loads(audiodescriptions[i].archivo_audio)

\* C9: the final audio track follows the presence of the two sides: both
\* give the mix, one gives that side, neither gives an output without audio
\* and a warning surfaced to the user.
C9_AudioTrackByPresence ==
    Rendered =>
        LET has_original == video_has_audio
            has_descriptions == Len(clips_audio_descripcion) > 0
        IN  /\ output.audio.original = has_original
            /\ output.audio.descriptions = has_descriptions
            /\ (~has_original /\ ~has_descriptions) =>
                  /\ output.audio = NoAudio
                  /\ "no_audio_warning" \in dialogs

\* C10: the rendered output's duration equals the window's duration
\* W_end - W_start, whatever the lengths of the clips and of the mixed track.
C10_OutputDurationPinned ==
    Rendered => OutputDuration(output) = WindowLength

\* ---------------------------------------------------------------------- C11
\* C11: on every exit path of a render (success, skipped item, invalid
\* window, exception in decode, mix or encode) every video and audio handle
\* the render opened has been closed when the render returns.
C11_HandlesReleased ==
    pc = "done" => open_handles = NoHandles

\* ---------------------------------------------------------------------- C12
\* A description file whose load raised inside the pass of
\* generate_video_with_ads
DecodeRaised ==
    \E i \in ItemIndices :
        /\ i < idx
        /\ ~AudioFileClip_loads(audiodescriptions[i].archivo_audio)

\* C12 as stated: any exception raised during decode, mix or encode makes
\* generate_video_with_ads return (False, exception), the load of a
\* description file included.
C12_Original ==
    (worker = "ads" /\ pc = "done" /\ DecodeRaised) => result = "error"

\* C12: an exception of generate_video_with_ads that is not the load of one
\* description file (the video's decode, the encode) ends the render with
\* (False, exception) and the caller reports an error and no success; the
\* (True, None) result, the 100% progress value and the success dialog appear
\* only once write_videofile has completed.
C12_FailureReportedSuccessAfterWrite ==
    worker = "ads" =>
        /\ pc # "done" =>
              /\ result = "running"
              /\ "success" \notin dialogs
              /\ progress < 100
        /\ pc = "done" =>
              \/ /\ output.written
                 /\ result = "ok"
                 /\ "success" \in dialogs /\ "error" \notin dialogs
                 /\ progress = 100
              \/ /\ ~output.written
                 /\ result = "error"
                 /\ "error" \in dialogs /\ "success" \notin dialogs
                 /\ progress < 100

\* The encode raised after a pass over a loadable item: an error is reported
C12_Witness ==
    /\ worker = "ads" /\ pc = "done" /\ result = "error"
    /\ progress = 80
    /\ Len(clips_audio_descripcion) > 0
    /\ "error" \in dialogs

\* ---------------------------------------------------------------------- C13
\* C13: at most one worker thread (TTS batch or render) is in flight at any
\* time, whatever the user does while one is running.
C13_AtMostOneWorker ==
    Cardinality(InFlight(threads)) <= 1

\* ---------------------------------------------------------------------- C14
\* C14: while a worker is in flight, a handler the user sets off (add, edit,
\* delete, clear, project import, SRT import) leaves the item list as it is
\* and does not delete the session's scratch directory.
C14_HandlersKeepListAndScratchDir ==
    [][(InFlight(threads) # {} /\ user_actions' # user_actions) =>
          /\ Len(frame'.audiodescriptions) = Len(frame.audiodescriptions)
          /\ \A k \in 1..Len(frame.audiodescriptions) :
                /\ frame'.audiodescriptions[k] \in DOMAIN objects'
                /\ objects'[frame'.audiodescriptions[k]]
                      = objects[frame.audiodescriptions[k]]
          /\ fs.dirs \subseteq fs'.dirs]_vars

\* ---------------------------------------------------------------------- C15
\* C15: once the workers have finished and their queued calls have run, the
\* generate and TTS buttons are not left disabled while the prerequisites of
\* the current project state hold.
C15_ButtonsFollowPrerequisites ==
    (InFlight(threads) = {} /\ events = <<>>) =>
        /\ can_generate_tts(frame, objects, env) => frame.generate_tts_btn
        /\ can_generate_video(frame, objects, fs.files, env)
              => frame.generate_btn

\* ---------------------------------------------------------------------- C16
\* The batch of thread s has returned (False, e)
tts_batch_failed(s) ==
    /\ threads[s].target = "tts"
    /\ threads[s].pc = "returned"
    /\ ~threads[s].success

\* C16: when the synthesis of item k of a batch fails, the driver returns
\* (False, e), no item after k has been synthesized, items 0..k-1 have the
\* path assigned to them (and the file is there), and items k.. still have
\* the empty path.
C16_FailureKeepsPartialProgress ==
    \A s \in DOMAIN threads :
        tts_batch_failed(s) =>
            LET t == threads[s]
                item(j) == objects[t.items_to_generate[j + 1]]
                name(j) == output_filename(t.temp_dir, item(j).tiempo, j)
            IN  /\ 100 \notin {t.reported[j] : j \in 1..Len(t.reported)}
                /\ \A j \in 0..(Len(t.items_to_generate) - 1) :
                      /\ j < t.i => /\ item(j).archivo_audio = name(j)
                                    /\ name(j) \in fs.files
                      /\ j >= t.i => item(j).archivo_audio = EmptyPath
                      /\ j > t.i => name(j) \notin fs.files

\* The third item of a longer batch failed with its file already opened
C16_Witness ==
    /\ tts_batch_failed(1)
    /\ threads[1].i = 2
    /\ Len(threads[1].items_to_generate) >= 4
    /\ output_filename(1, 0, 2) \in fs.files
    /\ objects[threads[1].items_to_generate[2]].archivo_audio
          = output_filename(1, 0, 1)
    /\ objects[threads[1].items_to_generate[3]].archivo_audio = EmptyPath

\* ---------------------------------------------------------------------- C17
\* The file a step of thread s has just written
written_by(s) ==
    output_filename(
        threads[s].temp_dir,
        objects[threads[s].items_to_generate[threads[s].i + 1]].tiempo,
        threads[s].i)

\* C17: no two items of the list have the same synthesized path, and no
\* batch writes over a file that another item's path refers to.
C17_NoCollision ==
    /\ [](\A k, l \in 1..Len(frame.audiodescriptions) :
             (k # l /\ objects[frame.audiodescriptions[k]].archivo_audio.dir > 0)
                => objects[frame.audiodescriptions[k]].archivo_audio
                      # objects[frame.audiodescriptions[l]].archivo_audio)
    /\ [][\A s \in DOMAIN threads :
             (threads[s].target = "tts"
              /\ threads'[s].target = "tts"
              /\ threads'[s].i = threads[s].i + 1)
                => \A k \in 1..Len(frame.audiodescriptions) :
                      frame.audiodescriptions[k]
                            # threads[s].items_to_generate[threads[s].i + 1]
                         => objects[frame.audiodescriptions[k]].archivo_audio
                               # written_by(s)]_vars

\* ---------------------------------------------------------------------- C18
\* C18: the percentages reported by a batch start at 0, the value after item
\* i (0-based) of n is floor(100*(i+1)/n), the sequence does not decrease,
\* and 100 is reported if and only if every item was synthesized.
C18_ProgressValues ==
    \A s \in DOMAIN threads :
        (threads[s].target = "tts" /\ threads[s].reported # <<>>) =>
            LET t == threads[s]
                n == Len(t.items_to_generate)
            IN  /\ t.reported[1] = 0
                /\ \A j \in 1..t.i : t.reported[j + 1] = (100 * j) \div n
                /\ \A j \in 1..(Len(t.reported) - 1) :
                      t.reported[j] <= t.reported[j + 1]
                /\ (\E j \in 1..Len(t.reported) : t.reported[j] = 100)
                      <=> t.i = n

\* ---------------------------------------------------------------------- C19
\* How many times the list holds an item
item_count(f, h, item) ==
    Cardinality({k \in 1..Len(f.audiodescriptions) :
                    h[f.audiodescriptions[k]] = item})

\* The same items (time, audio path, text), each as many times
same_items(f, h, g, i) ==
    \A item \in {h[id] : id \in DOMAIN h} \cup {i[id] : id \in DOMAIN i} :
        item_count(f, h, item) = item_count(g, i, item)

\* C19: loading the document save_project_state writes for the current
\* project yields the same items, the same video and output paths and the
\* same two gains.
C19_RoundTrip ==
    [][(/\ on_import_project
        /\ load_project_state_of_dict
        /\ project_file.data = project_data(frame, objects))
          => /\ same_items(frame, objects, frame', objects')
             /\ frame'.video_file = frame.video_file
             /\ frame'.output_ctrl = frame.output_ctrl
             /\ frame'.vol_orig_ctrl = frame.vol_orig_ctrl
             /\ frame'.vol_desc_ctrl = frame.vol_desc_ctrl]_vars

\* A project of two items, one of them synthesized, as its own document
\* gives it back: the load emptied the scratch directory on the way
C19_Witness ==
    /\ project_file.exists
    /\ project_file.json = "object"
    /\ project_file.data = project_data(frame, objects)
    /\ Len(frame.audiodescriptions) = 2
    /\ frame.temp_tts_dir = 0
    /\ fs.dirs = {}
    /\ \E k \in 1..2 :
          /\ objects[frame.audiodescriptions[k]].archivo_audio.dir > 0
          /\ objects[frame.audiodescriptions[k]].descripcion # ""
    /\ frame.vol_orig_ctrl = 20

\* ---------------------------------------------------------------------- C20
\* C20: a document with unknown keys or missing keys, at the top level or in
\* an entry of audiodescriptions, loads: the project has an item for every
\* entry, and what is missing has its default (time 0, empty audio path,
\* empty text, gains 0.6 and 1.5, voice index 0, rate 0).
C20_LoadsWithDefaults ==
    [][(on_import_project /\ load_project_state_of_dict) =>
          LET data == project_file.data
              entries == get(data, "audiodescriptions", <<>>)
              tts_settings == get(data, "tts_settings", empty_dict)
          IN  /\ Len(frame'.audiodescriptions) = Len(entries)
              /\ \A k \in 1..Len(entries) :
                    \E l \in 1..Len(frame'.audiodescriptions) :
                       LET item == objects'[frame'.audiodescriptions[l]]
                       IN  /\ item.tiempo = get(entries[k], "tiempo", 0)
                           /\ item.archivo_audio
                                 = get(entries[k], "archivo_audio", EmptyPath)
                           /\ item.descripcion
                                 = get(entries[k], "descripcion", "")
              /\ frame'.video_file = get(data, "video_file", "")
              /\ "volume_original" \notin DOMAIN data
                    => frame'.vol_orig_ctrl = 6
              /\ "volume_description" \notin DOMAIN data
                    => frame'.vol_desc_ctrl = 15
              /\ frame'.selected_voice_index
                    = get(tts_settings, "voice_index", 0)
              /\ frame'.rate_slider = get(tts_settings, "rate", 0)]_vars

\* ---------------------------------------------------------------------- C21
\* C21: when the file picked for import is not a project document (text
\* that is not JSON, or the JSON value null or a list), the item list, the
\* video path, the output path and the two gains stay as they were.
C21_FailedLoadChangesNothing ==
    [][(on_import_project /\ project_file.json # "object") =>
          /\ Len(frame'.audiodescriptions) = Len(frame.audiodescriptions)
          /\ same_items(frame, objects, frame', objects')
          /\ frame'.video_file = frame.video_file
          /\ frame'.output_ctrl = frame.output_ctrl
          /\ frame'.vol_orig_ctrl = frame.vol_orig_ctrl
          /\ frame'.vol_desc_ctrl = frame.vol_desc_ctrl]_vars

\* ---------------------------------------------------------------------- C22
\* How many items of the list have this time, this text and no audio path
pending_count(f, h, t, text) ==
    item_count(f, h, GuiItem(t, EmptyPath, text))

\* How many entries of the subtitle file have this start and this content
entry_count(subs, t, content) ==
    Cardinality({k \in 1..Len(subs) :
                    subs[k].start = t /\ subs[k].content = content})

\* C22 as the specification words it: a confirmed subtitle import leaves one
\* pending item per entry, its time the entry's start and its text the
\* entry's content, and nothing else; an abandoned import leaves the list as
\* it was.
C22_Original ==
    [][on_import_srt_project(SrtFiles) =>
          \A subs \in SrtFiles :
             srt_import_confirmed(subs) =>
                /\ Len(frame'.audiodescriptions) = Len(subs)
                /\ \A t \in 0..GuiVideoDuration, content \in SrtContents :
                      pending_count(frame', objects', t, content)
                         = entry_count(subs, t, content)]_vars

\* The text an entry's content is stored as: its lines joined by spaces
stored_text(content) ==
    CASE content = "a" -> "a"
      [] content = "a\nb" -> "a b"

\* C22: a confirmed subtitle import leaves one pending item per entry, its
\* time the entry's start and its text the entry's content with every line
\* break turned into a space, and nothing else: none of the items the list
\* held before; an import that fails to parse, is empty or is declined
\* leaves the list as it was.
C22_ImportReplacesList ==
    /\ [][on_import_srt_project(SrtFiles) =>
            \A subs \in SrtFiles :
               srt_import_confirmed(subs) =>
                  /\ Len(frame'.audiodescriptions) = Len(subs)
                  /\ \A t \in 0..GuiVideoDuration, content \in SrtContents :
                        pending_count(frame', objects', t,
                                      stored_text(content))
                           = entry_count(subs, t, content)]_vars
    /\ [][(on_import_srt_project(SrtFiles) /\ srt_import_abandoned) =>
            /\ frame'.audiodescriptions = frame.audiodescriptions
            /\ \A k \in 1..Len(frame.audiodescriptions) :
                  objects'[frame.audiodescriptions[k]]
                     = objects[frame.audiodescriptions[k]]]_vars

\* A two-line entry and a one-line entry have been imported over a project
\* of other items
C22_Witness ==
    /\ user_actions = 1
    /\ Len(frame.audiodescriptions) = 2
    /\ objects[frame.audiodescriptions[1]] = GuiItem(0, EmptyPath, "a b")
    /\ objects[frame.audiodescriptions[2]] = GuiItem(1, EmptyPath, "a")
    /\ frame.temp_tts_dir = 0

\* ---------------------------------------------------------------------- C23
\* The identities of the items the list holds
ids_of(f) == {f.audiodescriptions[k] : k \in 1..Len(f.audiodescriptions)}

\* The list is in ascending order of time, holds no item twice, and the list
\* control has a row for every item, in the list's order
sorted_and_displayed(f, h) ==
    /\ \A k \in 1..(Len(f.audiodescriptions) - 1) :
          h[f.audiodescriptions[k]].tiempo
             <= h[f.audiodescriptions[k + 1]].tiempo
    /\ Cardinality(ids_of(f)) = Len(f.audiodescriptions)
    /\ Len(f.ad_list_ctrl) = Len(f.audiodescriptions)
    /\ \A k \in 1..Len(f.audiodescriptions) :
          /\ f.ad_list_ctrl[k].tiempo = h[f.audiodescriptions[k]].tiempo
          /\ f.ad_list_ctrl[k].descripcion
                = h[f.audiodescriptions[k]].descripcion

\* C23: after update_ad_list_ctrl, and so after every completed add, edit,
\* delete, project load and subtitle import, the item list is sorted
\* ascending by time and the rows displayed are in the same order; the list
\* is a permutation of the items it held: those of before and the new one
\* after an add, the same after an edit or a refresh, those of before less
\* the selected one after a delete.
C23_SortedPermutationDisplayed ==
    /\ [](sorted_and_displayed(frame, objects))
    /\ [][on_add_audiodescription =>
            /\ ids_of(frame) \subseteq ids_of(frame')
            /\ Len(frame'.audiodescriptions)
                  = Len(frame.audiodescriptions) + 1]_vars
    /\ [][(on_edit_audiodescription \/ wx_CallAfter_runs) =>
            /\ ids_of(frame') = ids_of(frame)
            /\ Len(frame'.audiodescriptions)
                  = Len(frame.audiodescriptions)]_vars
    /\ [][on_remove_audiodescription_from_list =>
            /\ ids_of(frame') \subseteq ids_of(frame)
            /\ Len(frame'.audiodescriptions)
                  = Len(frame.audiodescriptions) - 1]_vars

\* An item of time 0 was appended behind one at the video's end, and is now
\* the first of the list and of the rows
C23_Witness ==
    /\ Len(frame.audiodescriptions) = 2
    /\ frame.audiodescriptions = <<2, 1>>
    /\ objects[2].tiempo = 0
    /\ objects[1].tiempo = GuiVideoDuration
    /\ frame.ad_list_ctrl[1].tiempo = 0

\* ---------------------------------------------------------------------- C24
\* C24: after a normal exit and after a confirmed project-clear, every
\* scratch file the session created for a preview has been deleted and the
\* session tracks no scratch path.
C24_NoScratchAfterClearOrExit ==
    [][(MlAudesc_on_clear_project \/ MlAudesc_save_project_state_and_exit) =>
          /\ temp_preview_files' = {}
          /\ tmp_dir' = {}]_vars

\* ---------------------------------------------------------------------- C25
\* C25: in every state of a project, every item's time lies within the
\* video: 0 <= tiempo <= video_duration.
C25_TimesWithinVideo ==
    \A k \in 1..Len(frame.audiodescriptions) :
        /\ 0 <= objects[frame.audiodescriptions[k]].tiempo
        /\ objects[frame.audiodescriptions[k]].tiempo <= frame.video_duration

C27_NoDanglingScratchPath ==
    [][(on_import_project /\ load_project_state_of_dict) =>
          \A k \in 1..Len(frame'.audiodescriptions) :
             LET item == objects'[frame'.audiodescriptions[k]]
             IN  \/ item.archivo_audio = EmptyPath
                 \/ path_exists(item.archivo_audio, fs'.files)]_vars

\* ---------------------------------------------------------------------- C28
\* C28: a render thread is started only from a state in which a video is
\* set, the list is not empty and every item has an audio path naming a file
\* that exists; with a file missing no thread is started.
C28_RenderStartsOnCompleteProject ==
    [][\A s \in DOMAIN threads :
          (threads[s].target # "video" /\ threads'[s].target = "video") =>
              /\ frame.video_file # ""
              /\ Len(frame.audiodescriptions) > 0
              /\ \A k \in 1..Len(frame.audiodescriptions) :
                    /\ objects[frame.audiodescriptions[k]].archivo_audio
                          # EmptyPath
                    /\ path_exists(
                          objects[frame.audiodescriptions[k]].archivo_audio,
                          fs.files)]_vars

\* The user's third action, after the video and an item with its recorded
\* audio, has started the render: the thread has not run yet
C28_Witness ==
    /\ user_actions = 3
    /\ \E s \in DOMAIN threads :
          threads[s].target = "video" /\ threads[s].pc = "start"
    /\ frame.video_file # ""
    /\ Len(frame.audiodescriptions) = 1
    /\ objects[frame.audiodescriptions[1]].archivo_audio = UserAudioFile
    /\ ~frame.generate_btn

\* ---------------------------------------------------------------------- C29
\* A step of a TTS thread (the driver's start, an item, the end, the
\* report): a thread that runs a batch has moved
tts_thread_steps ==
    \E s \in DOMAIN threads :
        threads[s].target = "tts" /\ threads'[s] # threads[s]

\* C29: the batch a TTS thread is started with holds only items of the list
\* that are pending (no audio path, a text); the thread's steps change no
\* item's time or text, and change the audio path only of items of a batch,
\* never of an item with the user's own audio file.
C29_BatchChangesOnlyPendingPaths ==
    /\ [][\A s \in DOMAIN threads :
             (threads[s].target # "tts" /\ threads'[s].target = "tts") =>
                 \A k \in 1..Len(threads'[s].items_to_generate) :
                    /\ threads'[s].items_to_generate[k] \in ids_of(frame)
                    /\ is_pending(objects[threads'[s].items_to_generate[k]])]_vars
    /\ [][tts_thread_steps =>
             \A id \in DOMAIN objects \cap DOMAIN objects' :
                /\ objects'[id].tiempo = objects[id].tiempo
                /\ objects'[id].descripcion = objects[id].descripcion
                /\ objects'[id].archivo_audio # objects[id].archivo_audio =>
                      /\ objects[id].archivo_audio # UserAudioFile
                      /\ \E s \in DOMAIN threads :
                            /\ threads[s].target = "tts"
                            /\ \E k \in 1..Len(threads[s].items_to_generate) :
                                  threads[s].items_to_generate[k] = id]_vars

\* A batch has ended on a project of two items with a text: the pending one
\* has its synthesized file, the other still the user's file
C29_Witness ==
    /\ \E s \in DOMAIN threads :
          /\ threads[s].target = "tts"
          /\ threads[s].pc = "returned"
          /\ threads[s].success
          /\ Len(threads[s].items_to_generate) = 1
    /\ Len(frame.audiodescriptions) = 2
    /\ \E k, l \in 1..2 :
          /\ objects[frame.audiodescriptions[k]].archivo_audio = UserAudioFile
          /\ objects[frame.audiodescriptions[k]].descripcion # ""
          /\ objects[frame.audiodescriptions[l]].archivo_audio.dir > 0

\* ---------------------------------------------------------------------- C30
\* C30: whenever no worker is in flight and no queued call is waiting, the
\* list control shows the item list row by row: the same order, and the
\* pending marker in a row exactly when the item's audio path is empty.
C30_RowsAgreeWithList ==
    (InFlight(threads) = {} /\ events = <<>>) =>
        /\ Len(frame.ad_list_ctrl) = Len(frame.audiodescriptions)
        /\ \A k \in 1..Len(frame.audiodescriptions) :
              LET item == objects[frame.audiodescriptions[k]]
                  row == frame.ad_list_ctrl[k]
              IN  /\ row.tiempo = item.tiempo
                  /\ row.descripcion = item.descripcion
                  /\ row.audio_display = basename(EmptyPath)
                        <=> item.archivo_audio = EmptyPath

====
